---- MODULE Spec2Model ----
(***************************************************************************)
(* Model of the cycle collector of Modules/gcmodule.c (nogil fork).        *)
(*                                                                         *)
(* The heap is a record `mem` holding, per node, the two words of the GC   *)
(* header (_gc_next, and _gc_prev split into its pointer/gc_refs bits and  *)
(* its flag bits), and, per object, the reference count, the references a  *)
(* tp_traverse reports, and the references held by roots outside the heap. *)
(* Nodes are the objects 1..NumObjs, the weak-reference objects after      *)
(* them, and the list heads that collect() keeps on its stack.             *)
(***************************************************************************)
EXTENDS Integers, Sequences, FiniteSets, TLC

VARIABLES
  mem,              \* the heap: headers, counts, references, roots, history
  tp_del,           \* objects whose type has the legacy tp_del slot
  tp_finalize,      \* objects whose type has a tp_finalize slot
  debug_saveall,    \* gcstate->debug & DEBUG_SAVEALL
  pc,               \* where the collecting thread stands in collect()
  n_collected,      \* collect()'s local n_collected
  n_uncollectable,  \* collect()'s local n_uncollectable
  result,           \* what the last collect() returned
  ncollect,         \* collect() calls started so far
  hist,             \* what the current collection saw, phase by phase
  drv               \* the threads calling collect(), the STW mutex, gcstate

vars == <<mem, tp_del, tp_finalize, debug_saveall, pc, n_collected,
          n_uncollectable, result, ncollect, hist, drv>>

\* ------------------------------------------------------------------ bounds
NumObjs == 2          \* objects allocated in the GC heap
MaxEdges == 2         \* references between objects in the initial heap
MaxRoots == 1         \* references held by roots outside the heap, initially
MaxLegacy == 1        \* objects whose type has tp_del
MaxFin == 1           \* objects whose type has tp_finalize
MaxCollections == 2   \* collect() calls in one behaviour
MaxDrops == 1         \* references the program drops between collections
NumWeakrefs == 1      \* weak-reference objects a heap can hold
NumThreads == 2       \* threads that call collect()
MaxDepth == 2         \* collect() frames on one thread's stack
MaxCalls == 2         \* collect() calls the threads make from managed code
MaxCallbacks == 2     \* entries of the gcstate->callbacks list
MaxHooks == 2         \* calls of user code inside the phases of one collect()
NumGens == 2          \* generator objects the GC heap can hold
NumBlocks == 2        \* blocks of the pages a heap walk goes through
MaxSends == 3         \* calls made on a generator and its awaitables

\* ------------------------------------------------------------ nodes, words
Objs == 1..NumObjs
NULL == 0
\* the objects of type weakref; GCObjs are all the blocks of the GC heap
Weakrefs == (NumObjs + 1)..(NumObjs + NumWeakrefs)
GCObjs == Objs \cup Weakrefs
\* the list heads of collect(), handle_weakrefs() and finalize_garbage()
young == NumObjs + NumWeakrefs + 1
dead == NumObjs + NumWeakrefs + 2
unreachable == NumObjs + NumWeakrefs + 3
finalizers == NumObjs + NumWeakrefs + 4
wrcb_to_call == NumObjs + NumWeakrefs + 5
seen == NumObjs + NumWeakrefs + 6
final_unreachable == NumObjs + NumWeakrefs + 7
Heads == {young, dead, unreachable, finalizers, wrcb_to_call, seen, final_unreachable}
Nodes == GCObjs \cup Heads

\* The bits of _gc_prev above the flag bits hold either a pointer or gc_refs.
\* A pointer to node n is the number AddrBase + n, larger than any count.
AddrBase == 4 * (NumObjs + NumWeakrefs) + 8
AS_PTR(n) == IF n = NULL THEN 0 ELSE AddrBase + n
PTR_NODE(v) == IF v = 0 THEN NULL ELSE v - AddrBase

TRACKED == "TRACKED"
FINALIZED == "FINALIZED"
UNREACHABLE == "UNREACHABLE"

\* ------------------------------------------------------------ small helpers
RECURSIVE SetToSeq(_)
SetToSeq(S) ==
  IF S = {} THEN <<>>
  ELSE LET x == CHOOSE y \in S : \A z \in S : y <= z
       IN <<x>> \o SetToSeq(S \ {x})

SeqToSet(s) == {s[i] : i \in 1..Len(s)}

\* --------------------------------------------------------- header accessors
\* Faulty variant of gc_set_unreachable: the flag is left clear.
gc_set_unreachable_skip(m, g) == m

gc_set_unreachable(m, g) == [m EXCEPT !.flags[g] = @ \cup {UNREACHABLE}]

gc_get_refs(m, g) == m.prev[g]

gc_set_refs(m, g, refs) == [m EXCEPT !.prev[g] = refs]

gc_reset_refs(m, g, refs) == [m EXCEPT !.prev[g] = refs]

gc_decref(m, g) == [m EXCEPT !.prev[g] = @ - 1]

GC_NEXT(m, g) == m.next[g]
GC_PREV(m, g) == PTR_NODE(m.prev[g])
SET_NEXT(m, g, n) == [m EXCEPT !.next[g] = n]
SET_PREV(m, g, p) == [m EXCEPT !.prev[g] = AS_PTR(p)]
GC_BITS_IS_TRACKED(m, g) == TRACKED \in m.flags[g]
GC_BITS_IS_FINALIZED(m, g) == FINALIZED \in m.flags[g]
GC_BITS_IS_UNREACHABLE(m, g) == UNREACHABLE \in m.flags[g]
GC_BITS_CLEAR(m, g, bit) == [m EXCEPT !.flags[g] = @ \ {bit}]

\* ----------------------------------------------------------- list functions
gc_list_init(m, list) ==
  [m EXCEPT !.prev[list] = AS_PTR(list), !.next[list] = list]

gc_list_is_empty(m, list) == m.next[list] = list

gc_list_append(m, node, list) ==
  LET last == GC_PREV(m, list)
      m1 == SET_PREV(m, node, last)
      m2 == SET_NEXT(m1, last, node)
      m3 == SET_NEXT(m2, node, list)
  IN [m3 EXCEPT !.prev[list] = AS_PTR(node)]

gc_list_remove(m, node) ==
  LET prev == GC_PREV(m, node)
      next == GC_NEXT(m, node)
      m1 == SET_NEXT(m, prev, next)
      m2 == SET_PREV(m1, next, prev)
  IN [m2 EXCEPT !.next[node] = NULL,
                !.prev[node] = 0,
                !.flags[node] = @ \cap {TRACKED, FINALIZED}]

gc_list_move(m, node, list) ==
  LET from_prev == GC_PREV(m, node)
      from_next == GC_NEXT(m, node)
      m1 == SET_NEXT(m, from_prev, from_next)
      m2 == SET_PREV(m1, from_next, from_prev)
      to_prev == PTR_NODE(m2.prev[list])
      m3 == SET_PREV(m2, node, to_prev)
      m4 == SET_NEXT(m3, to_prev, node)
      m5 == [m4 EXCEPT !.prev[list] = AS_PTR(node)]
  IN SET_NEXT(m5, node, list)

gc_list_merge(m, from, to) ==
  IF ~gc_list_is_empty(m, from)
  THEN LET to_tail == GC_PREV(m, to)
           from_head == GC_NEXT(m, from)
           from_tail == GC_PREV(m, from)
           m1 == SET_NEXT(m, to_tail, from_head)
           m2 == SET_PREV(m1, from_head, to_tail)
           m3 == SET_NEXT(m2, from_tail, to)
           m4 == SET_PREV(m3, to, from_tail)
       IN gc_list_init(m4, from)
  ELSE gc_list_init(m, from)

RECURSIVE gc_list_clear_from(_, _, _)
gc_list_clear_from(m, gc, list) ==
  IF gc = list THEN gc_list_init(m, list)
  ELSE LET next == GC_NEXT(m, gc)
       IN gc_list_clear_from([m EXCEPT !.next[gc] = NULL,
                                       !.prev[gc] = 0,
                                       !.flags[gc] = @ \cap {TRACKED, FINALIZED}],
                             next, list)

\* Faulty variant of gc_list_clear: the head is emptied and the members keep
\* their links.
gc_list_clear_keep(m, list) ==
  [m EXCEPT !.prev[list] = AS_PTR(list), !.next[list] = list]

\* Faulty variant of gc_list_clear: the mask keeps GC_TRACKED_MASK only.
gc_list_clear_nofin(m, list) ==
  LET m1 == gc_list_clear_from(m, GC_NEXT(m, list), list)
  IN [m1 EXCEPT !.flags = [n \in Nodes |->
                             IF m.next[n] # NULL /\ m1.next[n] = NULL
                             THEN m1.flags[n] \ {FINALIZED}
                             ELSE m1.flags[n]]]

gc_list_clear(m, list) == gc_list_clear_from(m, GC_NEXT(m, list), list)

\* The members of a list in list order, following _gc_next from the head.
RECURSIVE ListFrom(_, _, _)
ListFrom(m, gc, list) ==
  IF gc = list THEN <<>> ELSE <<gc>> \o ListFrom(m, GC_NEXT(m, gc), list)

ListSeq(m, list) == ListFrom(m, GC_NEXT(m, list), list)

\* Faulty variant of gc_list_size: the head is counted as a member.
gc_list_size_head(m, list) == Len(ListSeq(m, list)) + 1

gc_list_size(m, list) == Len(ListSeq(m, list))

\* ------------------------------------------------------ refcount, traversal
Py_GC_REFCNT(m, op) == m.ob_ref[op]

\* tp_traverse visits the object's references slot by slot.
Traverse(m, op) == SetToSeq(m.refs[op])

\* visit_heap with the heap of the model: the tracked blocks in address order.
HeapOrder(m) == SetToSeq({o \in m.alive : GC_BITS_IS_TRACKED(m, o)})

RECURSIVE FoldSeq(_, _, _, _)
FoldSeq(Op(_, _, _), m, s, arg) ==
  IF s = <<>> THEN m ELSE FoldSeq(Op, Op(m, Head(s), arg), Tail(s), arg)

visit_heap(visitor(_, _, _), m, arg) == FoldSeq(visitor, m, HeapOrder(m), arg)

\* gc->_gc_prev = 0: the pointer part and every flag bit.
reset_heap_visitor(m, gc, arg) ==
  [m EXCEPT !.prev[gc] = 0, !.flags[gc] = {}]

\* _PyGC_ResetHeap
PyGC_ResetHeap(m) == visit_heap(reset_heap_visitor, m, NULL)

\* ------------------------------------------------------------- cycle kernel
\* Faulty variant of update_refs_visitor: gc_refs starts at 1 instead of the
\* reference count.
update_refs_visitor_one(m, gc, list) ==
  LET m1 == gc_reset_refs(m, gc, 1)
      prev == PTR_NODE(m1.prev[list])
      m2 == [m1 EXCEPT !.next[prev] = gc]
      m3 == [m2 EXCEPT !.next[gc] = list]
  IN [m3 EXCEPT !.prev[list] = AS_PTR(gc)]

update_refs_visitor(m, gc, list) ==
  LET refcount == Py_GC_REFCNT(m, gc)
      m1 == gc_reset_refs(m, gc, refcount)
      prev == PTR_NODE(m1.prev[list])
      m2 == [m1 EXCEPT !.next[prev] = gc]
      m3 == [m2 EXCEPT !.next[gc] = list]
  IN [m3 EXCEPT !.prev[list] = AS_PTR(gc)]

update_refs(m, containers) == visit_heap(update_refs_visitor, m, containers)

find_dead_objects_visitor(m, gc, list) ==
  IF Py_GC_REFCNT(m, gc) = 0 THEN gc_list_append(m, gc, list) ELSE m

find_dead_objects(m, list) == visit_heap(find_dead_objects_visitor, m, list)

visit_decref(m, op, arg) ==
  IF GC_BITS_IS_TRACKED(m, op) THEN gc_decref(m, op) ELSE m

RECURSIVE subtract_refs_from(_, _, _)
subtract_refs_from(m, gc, containers) ==
  IF gc = containers THEN m
  ELSE subtract_refs_from(FoldSeq(visit_decref, m, Traverse(m, gc), NULL),
                          GC_NEXT(m, gc), containers)

subtract_refs(m, containers) ==
  subtract_refs_from(m, GC_NEXT(m, containers), containers)

visit_decref_unreachable(m, op, arg) ==
  IF GC_BITS_IS_UNREACHABLE(m, op) THEN gc_decref(m, op) ELSE m

RECURSIVE subtract_refs_unreachable_from(_, _, _)
subtract_refs_unreachable_from(m, gc, containers) ==
  IF gc = containers THEN m
  ELSE subtract_refs_unreachable_from(
         FoldSeq(visit_decref_unreachable, m, Traverse(m, gc), NULL),
         GC_NEXT(m, gc), containers)

subtract_refs_unreachable(m, containers) ==
  subtract_refs_unreachable_from(m, GC_NEXT(m, containers), containers)

\* Faulty variant of visit_reachable: an object already moved to unreachable
\* is not moved back.
visit_reachable_nomove(m, op, reachable) ==
  IF m.next[op] = NULL THEN m
  ELSE IF gc_get_refs(m, op) = 0 THEN gc_set_refs(m, op, 1)
  ELSE m

\* Faulty variant of visit_reachable: an object moved back keeps gc_refs 0.
visit_reachable_zero(m, op, reachable) ==
  LET gc_refs == gc_get_refs(m, op)
  IN IF m.next[op] = NULL THEN m
     ELSE IF GC_BITS_IS_UNREACHABLE(m, op)
     THEN LET prev == GC_PREV(m, op)
              next == m.next[op]
              m1 == [m EXCEPT !.next[prev] = m.next[op]]
              m2 == SET_PREV(m1, next, prev)
              m3 == gc_list_append(m2, op, reachable)
              m4 == gc_set_refs(m3, op, 0)
          IN GC_BITS_CLEAR(m4, op, UNREACHABLE)
     ELSE IF gc_refs = 0 THEN gc_set_refs(m, op, 1)
     ELSE m

visit_reachable(m, op, reachable) ==
  LET gc_refs == gc_get_refs(m, op)
  IN IF m.next[op] = NULL THEN m
     ELSE IF GC_BITS_IS_UNREACHABLE(m, op)
     THEN LET prev == GC_PREV(m, op)
              next == m.next[op]
              m1 == [m EXCEPT !.next[prev] = m.next[op]]
              m2 == SET_PREV(m1, next, prev)
              m3 == gc_list_append(m2, op, reachable)
              m4 == gc_set_refs(m3, op, 1)
          IN GC_BITS_CLEAR(m4, op, UNREACHABLE)
     ELSE IF gc_refs = 0 THEN gc_set_refs(m, op, 1)
     ELSE m

\* One iteration of move_unreachable's loop on the state (m, prev, gc).
move_unreachable_step(st, base, unreach) ==
  LET m == st.m
      prev == st.prev
      gc == st.gc
  IN IF gc_get_refs(m, gc) # 0
     THEN LET m1 == FoldSeq(visit_reachable, m, Traverse(m, gc), base)
              m2 == SET_PREV(m1, gc, prev)
          IN [m |-> m2, prev |-> gc, gc |-> m2.next[gc]]
     ELSE LET m1 == [m EXCEPT !.next[prev] = m.next[gc]]
              last == GC_PREV(m1, unreach)
              m2 == [m1 EXCEPT !.next[last] = gc]
              m3 == SET_PREV(m2, gc, last)
              m4 == [m3 EXCEPT !.next[gc] = unreach]
              m5 == [m4 EXCEPT !.prev[unreach] = AS_PTR(gc)]
              m6 == gc_set_unreachable(m5, gc)
          IN [m |-> m6, prev |-> prev, gc |-> m6.next[prev]]

RECURSIVE move_unreachable_loop(_, _, _)
move_unreachable_loop(st, base, unreach) ==
  IF st.gc = base
  THEN [st.m EXCEPT !.prev[base] = AS_PTR(st.prev)]
  ELSE move_unreachable_loop(move_unreachable_step(st, base, unreach), base, unreach)

move_unreachable(m, base, unreach) ==
  move_unreachable_loop([m |-> m, prev |-> base, gc |-> GC_NEXT(m, base)],
                        base, unreach)

deduce_unreachable(m, base, unreach) ==
  move_unreachable(gc_list_init(m, unreach), base, unreach)

\* ------------------------------------------- the object model (collaborator)
\* _PyObject_GC_UNTRACK: unlink the header from the list it is on, if any,
\* and keep only FINALIZED in _gc_prev.
PyObject_GC_UNTRACK(m, op) ==
  LET m1 == IF m.next[op] # NULL
            THEN LET prev == GC_PREV(m, op)
                     next == GC_NEXT(m, op)
                     a == SET_NEXT(m, prev, next)
                     b == SET_PREV(a, next, prev)
                 IN [b EXCEPT !.next[op] = NULL]
            ELSE m
  IN [m1 EXCEPT !.prev[op] = 0, !.flags[op] = @ \cap {FINALIZED}]

\* Faulty variant of PyObject_GC_UnTrack: the header is left as it is.
PyObject_GC_UnTrack_never(m, op) == m

PyObject_GC_UnTrack(m, op) ==
  IF GC_BITS_IS_TRACKED(m, op) THEN PyObject_GC_UNTRACK(m, op) ELSE m

\* The three kinds of user code a collection runs, in the order of collect().
HookPhase(kind) ==
  CASE kind = "callback" -> 1
    [] kind = "tp_finalize" -> 2
    [] kind = "tp_clear" -> 3

\* The objects of the unreachable list of this collection that user code can
\* still get from a weak reference.
Exposed(m) ==
  IF pc \in {"idle", "deduced"} THEN {}
  ELSE {o \in hist.unreach_f \cap m.alive :
          \E w \in Weakrefs \cap m.alive : m.wr_object[w] = o}

\* User code of the given kind starts to run, called by the collector itself
\* (by = "gc") or by the deallocation of an object (by = "dealloc"). A call
\* is late when a call of a later phase has been made before it.
Hook(m, kind, by) ==
  [m EXCEPT !.phase = IF HookPhase(kind) > @ THEN HookPhase(kind) ELSE @,
            !.late = IF HookPhase(kind) < m.phase
                     THEN @ \cup {<<kind, by>>} ELSE @,
            !.exposed = @ \cup Exposed(m)]

PyWeakref_Check(op) == op \in Weakrefs

\* The weak references that refer to op, in the order of its list.
WeakRefsOf(m, op) ==
  SetToSeq({w \in Weakrefs \cap m.alive : m.wr_object[w] = op})

\* _PyWeakref_ClearRef: the reference is cleared, its callback is kept.
PyWeakref_ClearRef(m, wr) == [m EXCEPT !.wr_object[wr] = NULL]

\* _PyObject_ClearWeakRefsFromGC: every weak reference to op is cleared, no
\* callback is invoked.
PyObject_ClearWeakRefsFromGC(m, op) ==
  [m EXCEPT !.wr_object = [w \in Weakrefs |-> IF @[w] = op THEN NULL ELSE @[w]]]

\* The callback of wr is called with wr.
wr_callback_call(m, wr, by) ==
  [Hook(m, "callback", by) EXCEPT !.wr_called[wr] = @ + 1]

\* PyObject_ClearWeakRefs, called by tp_dealloc: every weak reference to op
\* is cleared and loses its callback, which is called.
PyObject_ClearWeakRefs(m, op) ==
  LET Clear(mm, wr, arg) ==
        LET m1 == [mm EXCEPT !.wr_object[wr] = NULL, !.wr_callback[wr] = FALSE]
        IN IF mm.wr_callback[wr] THEN wr_callback_call(m1, wr, "dealloc")
           ELSE m1
  IN FoldSeq(Clear, m, WeakRefsOf(m, op), NULL)

\* clear_weakref, called by the tp_clear and the tp_dealloc of a weak
\* reference: it forgets its referent and its callback.
clear_weakref(m, op) ==
  IF PyWeakref_Check(op)
  THEN [m EXCEPT !.wr_object[op] = NULL, !.wr_callback[op] = FALSE]
  ELSE m

\* tp_dealloc of a container, up to the release of its references: untrack,
\* run tp_finalize if it never ran (PEP 442), clear the weak references to
\* the object, give the block back.
Py_Dealloc(m, op) ==
  LET m1 == PyObject_GC_UnTrack(m, op)
      m2 == IF op \in tp_finalize /\ ~GC_BITS_IS_FINALIZED(m1, op)
            THEN Hook([m1 EXCEPT !.nfinalize[op] = @ + 1], "tp_finalize",
                      "dealloc")
            ELSE m1
      m3 == clear_weakref(PyObject_ClearWeakRefs(m2, op), op)
  IN [m3 EXCEPT !.alive = @ \ {op},
                !.refs[op] = {},
                !.flags[op] = {}]

\* Py_DECREF of every object of todo, in order; a count that falls to zero
\* deallocates the object at once, which releases the references it owns.
RECURSIVE Py_DECREF_all(_, _)
Py_DECREF_all(m, todo) ==
  IF todo = <<>> THEN m
  ELSE LET op == Head(todo)
           m1 == [m EXCEPT !.ob_ref[op] = @ - 1]
       IN IF m1.ob_ref[op] # 0
          THEN Py_DECREF_all(m1, Tail(todo))
          ELSE Py_DECREF_all(Py_Dealloc(m1, op), Traverse(m1, op) \o Tail(todo))

Py_DECREF(m, op) == Py_DECREF_all(m, <<op>>)

Py_INCREF(m, op) == [m EXCEPT !.ob_ref[op] = @ + 1]

\* tp_clear of a container: release every reference the object owns.
tp_clear(m, op) ==
  LET m1 == clear_weakref(Hook(m, "tp_clear", "gc"), op)
  IN Py_DECREF_all([m1 EXCEPT !.refs[op] = {}, !.cleared = @ \cup {op}],
                   Traverse(m, op))

\* What the tp_finalize of an object does: nothing, or it stores the object
\* in a root outside the heap (a module global), which resurrects it.
FinalizerChoices == {"none", "resurrect"}

tp_finalize_call(m, op, choice) ==
  LET m1 == Hook([m EXCEPT !.nfinalize[op] = @ + 1], "tp_finalize", "gc")
  IN IF choice = "resurrect"
     THEN Py_INCREF([m1 EXCEPT !.ext[op] = @ + 1,
                               !.resurrected = @ \cup {op},
                               !.ever_resurrected = @ \cup {op}], op)
     ELSE m1

\* --------------------------------------------------- finalization pipeline
clear_dead_objects(m, head) ==
  LET ds == ListSeq(m, head)
      Free(mm, op, arg) == Py_DECREF_all(Py_Dealloc(mm, op), Traverse(mm, op))
  IN FoldSeq(Free, m, ds, NULL)

has_legacy_finalizer(op) == op \in tp_del

\* Faulty variant of move_legacy_finalizers: nothing is moved.
move_legacy_finalizers_none(m, unreach, fin) == m

RECURSIVE move_legacy_finalizers_from(_, _, _, _)
move_legacy_finalizers_from(m, gc, unreach, fin) ==
  IF gc = unreach THEN m
  ELSE LET next == m.next[gc]
       IN IF has_legacy_finalizer(gc)
          THEN move_legacy_finalizers_from(
                 GC_BITS_CLEAR(gc_list_move(m, gc, fin), gc, UNREACHABLE),
                 next, unreach, fin)
          ELSE move_legacy_finalizers_from(m, next, unreach, fin)

move_legacy_finalizers(m, unreach, fin) ==
  move_legacy_finalizers_from(m, GC_NEXT(m, unreach), unreach, fin)

RECURSIVE clear_unreachable_mask_from(_, _, _)
clear_unreachable_mask_from(m, gc, unreach) ==
  IF gc = unreach THEN m
  ELSE clear_unreachable_mask_from(GC_BITS_CLEAR(m, gc, UNREACHABLE),
                                   m.next[gc], unreach)

clear_unreachable_mask(m, unreach) ==
  clear_unreachable_mask_from(m, GC_NEXT(m, unreach), unreach)

\* Faulty variant of visit_move: the visited object stays where it is.
visit_move_none(m, op, tolist) == m

visit_move(m, op, tolist) ==
  IF GC_BITS_IS_UNREACHABLE(m, op)
  THEN GC_BITS_CLEAR(gc_list_move(m, op, tolist), op, UNREACHABLE)
  ELSE m

RECURSIVE move_legacy_finalizer_reachable_from(_, _, _)
move_legacy_finalizer_reachable_from(m, gc, fin) ==
  IF gc = fin THEN m
  ELSE LET m1 == FoldSeq(visit_move, m, Traverse(m, gc), fin)
       IN move_legacy_finalizer_reachable_from(m1, GC_NEXT(m1, gc), fin)

move_legacy_finalizer_reachable(m, fin) ==
  move_legacy_finalizer_reachable_from(m, GC_NEXT(m, fin), fin)

\* Faulty variant of the test of one weak reference: the callback of a weak
\* reference is called as soon as it is found, trash or not.
handle_weakrefs_visit_call(m, wr, arg) ==
  IF ~m.wr_callback[wr] THEN m ELSE wr_callback_call(m, wr, "gc")

\* Faulty variant of the test of one weak reference: the callback of a weak
\* reference that is trash itself is called.
handle_weakrefs_visit_trash(m, wr, arg) ==
  IF ~m.wr_callback[wr] THEN m
  ELSE IF GC_BITS_IS_UNREACHABLE(m, wr) THEN wr_callback_call(m, wr, "gc")
  ELSE gc_list_append(Py_INCREF(m, wr), wr, wrcb_to_call)

\* handle_weakrefs, first pass, one weak reference wr to the object at hand:
\* it is queued in wrcb_to_call, with a new reference, if it has a callback
\* and is not trash itself.
handle_weakrefs_visit(m, wr, arg) ==
  IF ~m.wr_callback[wr] THEN m
  ELSE IF GC_BITS_IS_UNREACHABLE(m, wr) THEN m
  ELSE gc_list_append(Py_INCREF(m, wr), wr, wrcb_to_call)

\* handle_weakrefs, first pass, from the object gc of the unreachable list.
RECURSIVE handle_weakrefs_clear_from(_, _, _)
handle_weakrefs_clear_from(m, gc, unreach) ==
  IF gc = unreach THEN m
  ELSE LET next == GC_NEXT(m, gc)
           m1 == IF PyWeakref_Check(gc) THEN PyWeakref_ClearRef(m, gc) ELSE m
           m2 == IF WeakRefsOf(m1, gc) = <<>> THEN m1
                 ELSE PyObject_ClearWeakRefsFromGC(
                        FoldSeq(handle_weakrefs_visit, m1, WeakRefsOf(m1, gc),
                                NULL), gc)
       IN handle_weakrefs_clear_from(m2, next, unreach)

handle_weakrefs_clear(m, unreach) ==
  handle_weakrefs_clear_from(gc_list_init(m, wrcb_to_call),
                             GC_NEXT(m, unreach), unreach)

\* The weak references the first pass queues.
QueuedWeakrefs(m, unreach) ==
  {w \in Weakrefs \cap m.alive :
     /\ m.wr_object[w] \in SeqToSet(ListSeq(m, unreach))
     /\ m.wr_callback[w]
     /\ ~GC_BITS_IS_UNREACHABLE(m, w)}

\* assert(_PyGCHead_NEXT(wrasgc) == NULL); assert(_PyGCHead_PREV(wrasgc) == NULL)
handle_weakrefs_asserts(m, unreach) ==
  \A w \in QueuedWeakrefs(m, unreach) :
    GC_NEXT(m, w) = NULL /\ GC_PREV(m, w) = NULL

\* What the callback of a weak reference does: nothing, or it drops the
\* reference a root holds to the weak reference (the entry of a weak-value
\* dictionary).
CallbackChoices(m, wr) ==
  IF m.ext[wr] > 0 THEN {"none", "release"} ELSE {"none"}

\* handle_weakrefs, second pass, one iteration: the callback of the first
\* queued weak reference is called and the reference taken by the first
\* pass is given up.
handle_weakrefs_step(m, choice) ==
  LET gc == GC_NEXT(m, wrcb_to_call)
      m1 == wr_callback_call(m, gc, "gc")
      m2 == IF choice = "release"
            THEN Py_DECREF([m1 EXCEPT !.ext[gc] = @ - 1], gc)
            ELSE m1
      m3 == Py_DECREF(m2, gc)
  IN IF GC_NEXT(m3, wrcb_to_call) = gc THEN gc_list_remove(m3, gc) ELSE m3

\* A walk of the list meets a null pointer or a freed block.
RECURSIVE ListBrokenFrom(_, _, _, _)
ListBrokenFrom(m, gc, list, fuel) ==
  IF gc = list THEN FALSE
  ELSE IF gc = NULL \/ fuel = 0 \/ (gc \in GCObjs /\ gc \notin m.alive)
  THEN TRUE
  ELSE ListBrokenFrom(m, GC_NEXT(m, gc), list, fuel - 1)

ListBroken(m, list) ==
  ListBrokenFrom(m, GC_NEXT(m, list), list, Cardinality(Nodes))

\* PyList_Append(gcstate->garbage, op): the list takes a reference.
garbage_append(m, op) ==
  Py_INCREF([m EXCEPT !.garbage = Append(@, op)], op)

\* Faulty variant of handle_legacy_finalizers' loop: every object of the list
\* is appended, whatever the debug flags.
RECURSIVE handle_legacy_finalizers_all(_, _, _, _, _)
handle_legacy_finalizers_all(m, gc, fin, failAt, k) ==
  IF gc = fin THEN m
  ELSE IF k = failAt THEN m
  ELSE handle_legacy_finalizers_all(garbage_append(m, gc), GC_NEXT(m, gc),
                                    fin, failAt, k + 1)

\* Faulty variant of handle_legacy_finalizers' loop: has_legacy_finalizer is
\* not consulted, objects are appended under DEBUG_SAVEALL only.
RECURSIVE handle_legacy_finalizers_debug(_, _, _, _, _)
handle_legacy_finalizers_debug(m, gc, fin, failAt, k) ==
  IF gc = fin \/ ~debug_saveall \/ k = failAt THEN m
  ELSE handle_legacy_finalizers_debug(garbage_append(m, gc), GC_NEXT(m, gc),
                                      fin, failAt, k + 1)

\* Faulty variant of handle_legacy_finalizers: the list is not cleared.
handle_legacy_finalizers_noclear(m, fin, failAt) == m

\* handle_legacy_finalizers; the append number failAt (counted from 1) fails
\* for lack of memory, 0 means that none fails.
RECURSIVE handle_legacy_finalizers_from(_, _, _, _, _)
handle_legacy_finalizers_from(m, gc, fin, failAt, k) ==
  IF gc = fin THEN m
  ELSE IF debug_saveall \/ has_legacy_finalizer(gc)
  THEN IF k = failAt THEN m
       ELSE handle_legacy_finalizers_from(garbage_append(m, gc), GC_NEXT(m, gc),
                                          fin, failAt, k + 1)
  ELSE handle_legacy_finalizers_from(m, GC_NEXT(m, gc), fin, failAt, k)

handle_legacy_finalizers(m, fin, failAt) ==
  gc_list_clear(handle_legacy_finalizers_from(m, GC_NEXT(m, fin), fin, failAt, 1),
                fin)

\* Faulty variant of finalize_garbage's iteration: FINALIZED is not tested.
finalize_garbage_step_again(m, collectable, choice) ==
  LET gc == GC_NEXT(m, collectable)
      m1 == gc_list_move(m, gc, seen)
  IN IF gc \in tp_finalize
     THEN Py_DECREF(tp_finalize_call(Py_INCREF(m1, gc), gc, choice), gc)
     ELSE m1

\* One iteration of finalize_garbage's loop.
finalize_garbage_step(m, collectable, choice) ==
  LET gc == GC_NEXT(m, collectable)
      m1 == gc_list_move(m, gc, seen)
  IN IF ~GC_BITS_IS_FINALIZED(m1, gc) /\ gc \in tp_finalize
     THEN LET m2 == [m1 EXCEPT !.flags[gc] = @ \cup {FINALIZED}]
              m3 == Py_INCREF(m2, gc)
              m4 == tp_finalize_call([m3 EXCEPT !.hist_fin = @ \cup {gc}], gc, choice)
          IN Py_DECREF(m4, gc)
     ELSE m1

\* Faulty variant of handle_resurrected_objects: the whole list is taken to
\* be still unreachable.
handle_resurrected_objects_all(m, unreach, still_unreachable) ==
  gc_list_merge(gc_list_init(m, still_unreachable), unreach, still_unreachable)

handle_resurrected_objects(m, unreach, still_unreachable) ==
  LET Reset(mm, gc, arg) == gc_set_refs(mm, gc, Py_GC_REFCNT(mm, gc))
      m1 == FoldSeq(Reset, m, ListSeq(m, unreach), NULL)
      m2 == subtract_refs_unreachable(m1, unreach)
      m3 == clear_unreachable_mask(m2, unreach)
      m4 == deduce_unreachable(m3, unreach, still_unreachable)
  IN gc_list_clear(m4, unreach)

\* Faulty variant of delete_garbage's iteration: tp_clear is called whatever
\* the debug flags, and the object is saved as well under DEBUG_SAVEALL.
delete_garbage_step_clear(m, collectable, appendFails) ==
  LET gc == GC_NEXT(m, collectable)
      m0 == IF debug_saveall /\ ~appendFails THEN garbage_append(m, gc) ELSE m
      m1 == Py_DECREF(tp_clear(Py_INCREF(m0, gc), gc), gc)
  IN IF GC_NEXT(m1, collectable) = gc THEN gc_list_remove(m1, gc) ELSE m1

\* Faulty variant of delete_garbage's iteration: an object that is still the
\* head after its tp_clear is left in the list.
delete_garbage_step_keep(m, collectable, appendFails) ==
  LET gc == GC_NEXT(m, collectable)
  IN IF debug_saveall
     THEN IF appendFails THEN m ELSE garbage_append(m, gc)
     ELSE Py_DECREF(tp_clear(Py_INCREF(m, gc), gc), gc)

\* Faulty variant of delete_garbage's iteration: the object is unlinked but
\* its tp_clear is never called.
delete_garbage_step_noclear(m, collectable, appendFails) ==
  gc_list_remove(m, GC_NEXT(m, collectable))

\* Faulty variant of delete_garbage's iteration: the object is saved on the
\* garbage list whatever the debug flags.
delete_garbage_step_saveall(m, collectable, appendFails) ==
  gc_list_remove(garbage_append(m, GC_NEXT(m, collectable)),
                 GC_NEXT(m, collectable))

\* Faulty variant of delete_garbage's iteration: the collector calls the
\* tp_finalize of the object after its tp_clear.
delete_garbage_step_finalize(m, collectable, appendFails) ==
  LET gc == GC_NEXT(m, collectable)
      m1 == Hook(Py_DECREF(tp_clear(Py_INCREF(m, gc), gc), gc),
                 "tp_finalize", "gc")
  IN IF GC_NEXT(m1, collectable) = gc THEN gc_list_remove(m1, gc) ELSE m1

\* One iteration of delete_garbage's loop; appendFails says whether the
\* PyList_Append of the DEBUG_SAVEALL branch fails.
delete_garbage_step(m, collectable, appendFails) ==
  LET gc == GC_NEXT(m, collectable)
      m1 == IF debug_saveall
            THEN IF appendFails THEN m ELSE garbage_append(m, gc)
            ELSE Py_DECREF(tp_clear(Py_INCREF(m, gc), gc), gc)
  IN IF GC_NEXT(m1, collectable) = gc THEN gc_list_remove(m1, gc) ELSE m1

\* -------------------------------------------------------------- the heap
InDegree(refs, o) == Cardinality({p \in DOMAIN refs : o \in refs[p]})

NumEdges(refs) ==
  Cardinality({e \in (DOMAIN refs) \X (DOMAIN refs) : e[2] \in refs[e[1]]})

RECURSIVE SumOver(_, _)
SumOver(f, S) ==
  IF S = {} THEN 0
  ELSE LET x == CHOOSE y \in S : TRUE IN f[x] + SumOver(f, S \ {x})

\* A heap between collections: every allocated object is tracked, linked in
\* no list, and its count is the number of references to it; wr_object and
\* wr_callback are the referent of each weak reference and whether it has a
\* callback.
InitHeap(alive, refs, ext, wr_object, wr_callback) ==
  [next |-> [n \in Nodes |-> NULL],
   prev |-> [n \in Nodes |-> 0],
   flags |-> [n \in Nodes |-> IF n \in alive THEN {TRACKED} ELSE {}],
   ob_ref |-> [o \in GCObjs |-> InDegree(refs, o) + ext[o]],
   refs |-> refs,
   ext |-> ext,
   alive |-> alive,
   garbage |-> <<>>,
   cleared |-> {},
   hist_fin |-> {},
   nfinalize |-> [o \in GCObjs |-> 0],
   resurrected |-> {},
   ever_resurrected |-> {},
   wr_object |-> wr_object,
   wr_callback |-> wr_callback,
   wr_called |-> [w \in Weakrefs |-> 0],
   phase |-> 0,
   late |-> {},
   exposed |-> {}]

\* A heap without weak references.
InitMem(refs, ext) ==
  InitHeap(Objs,
           [o \in GCObjs |-> IF o \in Objs THEN refs[o] ELSE {}],
           [o \in GCObjs |-> IF o \in Objs THEN ext[o] ELSE 0],
           [w \in Weakrefs |-> NULL],
           [w \in Weakrefs |-> FALSE])

\* The initial heaps. Every object is referenced (an unreferenced object was
\* freed by its last Py_DECREF).
Heaps(maxroots) ==
  {InitMem(x[1], x[2]) :
     x \in {y \in [Objs -> SUBSET Objs] \X [Objs -> 0..maxroots] :
              /\ NumEdges(y[1]) <= MaxEdges
              /\ SumOver(y[2], Objs) <= maxroots
              /\ \A o \in Objs : InDegree(y[1], o) + y[2][o] > 0}}

NoHist ==
  [gc_refs |-> [o \in Objs |-> -1],
   refs0 |-> [o \in Objs |-> {}],
   ext0 |-> [o \in Objs |-> 0],
   alive0 |-> {},
   young |-> {},
   unreach |-> {},
   finalizers |-> {},
   unreach_f |-> {},
   final |-> {},
   uncollectable |-> <<>>,
   glen |-> 0,
   oom |-> FALSE,
   returned |-> FALSE,
   ndrops |-> 0,
   ever_legacy |-> {},
   ever_final |-> {},
   prev_returned |-> FALSE,
   prev_oom |-> FALSE,
   wr_object0 |-> [w \in Weakrefs |-> NULL],
   wr_callback0 |-> [w \in Weakrefs |-> FALSE]]

\* The driver state of a program in which no thread is in collect().
NoDrv == [collecting |-> FALSE]

\* Live objects and cyclic garbage, types with tp_finalize, default flags.
InitCycles ==
  /\ mem \in Heaps(MaxRoots)
  /\ tp_del = {}
  /\ tp_finalize \in {S \in SUBSET Objs : Cardinality(S) <= MaxFin}
  /\ debug_saveall = FALSE

\* Cyclic garbage only, types with tp_del and tp_finalize, any debug flags.
InitLegacy ==
  /\ mem \in Heaps(0)
  /\ tp_del \in {S \in SUBSET Objs : Cardinality(S) <= MaxLegacy}
  /\ tp_finalize \in {S \in SUBSET Objs : Cardinality(S) <= MaxFin}
  /\ debug_saveall \in BOOLEAN

Init ==
  /\ InitCycles \/ InitLegacy
  /\ pc = "idle"
  /\ n_collected = 0
  /\ n_uncollectable = 0
  /\ result = 0
  /\ ncollect = 0
  /\ hist = NoHist
  /\ drv = NoDrv

ListSet(m, list) == SeqToSet(ListSeq(m, list))

\* ----------------------------------------------------------------- collect
\* collect() up to the return of deduce_unreachable(&young, &unreachable).
Collect_Start ==
  /\ pc = "idle"
  /\ ncollect < MaxCollections
  /\ LET m0 == [mem EXCEPT !.cleared = {}, !.hist_fin = {}, !.resurrected = {},
                           !.phase = 0, !.late = {}, !.exposed = {}]
         m1 == gc_list_init(gc_list_init(m0, young), dead)
         m2 == clear_dead_objects(find_dead_objects(m1, dead), dead)
         m3 == subtract_refs(update_refs(m2, young), young)
         m4 == deduce_unreachable(m3, young, unreachable)
     IN /\ mem' = m4
        /\ hist' = [NoHist EXCEPT
                      !.ndrops = hist.ndrops,
                      !.ever_legacy = hist.ever_legacy,
                      !.ever_final = hist.ever_final,
                      !.prev_returned = hist.returned,
                      !.prev_oom = hist.oom,
                      !.wr_object0 = mem.wr_object,
                      !.wr_callback0 = mem.wr_callback,
                      !.gc_refs = [o \in Objs |-> IF m3.next[o] # NULL
                                                  THEN gc_get_refs(m3, o) ELSE -1],
                      !.refs0 = mem.refs,
                      !.ext0 = [o \in Objs |->
                                  IF o \in mem.alive
                                  THEN mem.ob_ref[o] - InDegree(mem.refs, o)
                                  ELSE 0],
                      !.alive0 = mem.alive,
                      !.young = ListSet(m4, young),
                      !.unreach = ListSet(m4, unreachable)]
  /\ pc' = "deduced"
  /\ n_collected' = 0
  /\ n_uncollectable' = 0
  /\ ncollect' = ncollect + 1
  /\ UNCHANGED <<drv, tp_del, tp_finalize, debug_saveall, result>>

\* gc_list_clear(&young), move_legacy_finalizers, move_legacy_finalizer_reachable.
Collect_LegacyFilter ==
  /\ pc = "deduced"
  /\ LET m1 == gc_list_clear(mem, young)
         m2 == gc_list_init(m1, finalizers)
         m3 == move_legacy_finalizers(m2, unreachable, finalizers)
         m4 == move_legacy_finalizer_reachable(m3, finalizers)
     IN /\ mem' = m4
        /\ hist' = [hist EXCEPT !.finalizers = ListSet(m4, finalizers),
                                !.ever_legacy = @ \cup ListSet(m4, finalizers),
                                !.unreach_f = ListSet(m4, unreachable)]
  /\ pc' = "weakrefs"
  /\ UNCHANGED <<drv, tp_del, tp_finalize, debug_saveall, n_collected,
                 n_uncollectable, result, ncollect>>

\* handle_weakrefs when its first pass queues no weak reference, then the
\* entry of finalize_garbage (gc_list_init(&seen)).
Collect_Weakrefs ==
  /\ pc = "weakrefs"
  /\ LET m1 == handle_weakrefs_clear(mem, unreachable)
     IN /\ gc_list_is_empty(m1, wrcb_to_call)
        /\ mem' = gc_list_init(m1, seen)
  /\ pc' = "finalize"
  /\ UNCHANGED <<drv, tp_del, tp_finalize, debug_saveall, n_collected,
                 n_uncollectable, result, ncollect, hist>>

FinalizeStep ==
  /\ pc = "finalize"
  /\ ~gc_list_is_empty(mem, unreachable)
  /\ \E choice \in FinalizerChoices :
       mem' = finalize_garbage_step(mem, unreachable, choice)
  /\ UNCHANGED <<drv, tp_del, tp_finalize, debug_saveall, pc, n_collected,
                 n_uncollectable, result, ncollect, hist>>

\* The exit of finalize_garbage, handle_resurrected_objects, and the count
\* of final_unreachable.
Collect_Resurrect ==
  /\ pc = "finalize"
  /\ gc_list_is_empty(mem, unreachable)
  /\ LET m1 == gc_list_merge(mem, seen, unreachable)
         m2 == handle_resurrected_objects(m1, unreachable, final_unreachable)
     IN /\ mem' = m2
        /\ n_collected' = n_collected + gc_list_size(m2, final_unreachable)
        /\ hist' = [hist EXCEPT !.final = ListSet(m2, final_unreachable),
                                !.ever_final = @ \cup ListSet(m2, final_unreachable)]
  /\ pc' = "delete"
  /\ UNCHANGED <<drv, tp_del, tp_finalize, debug_saveall, n_uncollectable, result,
                 ncollect>>

DeleteStep ==
  /\ pc = "delete"
  /\ ~gc_list_is_empty(mem, final_unreachable)
  /\ \E appendFails \in (IF debug_saveall THEN BOOLEAN ELSE {FALSE}) :
       /\ mem' = delete_garbage_step(mem, final_unreachable, appendFails)
       /\ hist' = [hist EXCEPT !.oom = @ \/ appendFails]
  /\ UNCHANGED <<drv, tp_del, tp_finalize, debug_saveall, pc, n_collected,
                 n_uncollectable, result, ncollect>>

\* The appends handle_legacy_finalizers attempts on the list fin.
LegacyAppends(m, fin) ==
  SelectSeq(ListSeq(m, fin), LAMBDA o : debug_saveall \/ has_legacy_finalizer(o))

\* The rest of collect(): count finalizers, handle_legacy_finalizers, return.
Collect_Finish ==
  /\ pc = "delete"
  /\ gc_list_is_empty(mem, final_unreachable)
  /\ ~ListBroken(mem, finalizers)
  /\ LET n == gc_list_size(mem, finalizers)
     IN /\ n_uncollectable' = n_uncollectable + n
        /\ result' = n_collected + n_uncollectable + n
        /\ \E failAt \in 0..Len(LegacyAppends(mem, finalizers)) :
             /\ mem' = handle_legacy_finalizers(mem, finalizers, failAt)
             /\ hist' = [hist EXCEPT !.uncollectable = ListSeq(mem, finalizers),
                                     !.glen = Len(mem.garbage),
                                     !.oom = @ \/ (failAt # 0),
                                     !.returned = TRUE]
  /\ pc' = "idle"
  /\ UNCHANGED <<drv, tp_del, tp_finalize, debug_saveall, n_collected, ncollect>>

\* ----------------------------------------------------------------- mutator
\* Between two collections the program drops a reference a root holds (it
\* leaves the garbage list alone).
DropRoot(o) ==
  /\ pc = "idle"
  /\ ncollect > 0
  /\ ncollect < MaxCollections
  /\ o \in mem.alive
  /\ mem.ext[o] > 0
  /\ hist.ndrops < MaxDrops
  /\ mem' = Py_DECREF([mem EXCEPT !.ext[o] = @ - 1], o)
  /\ hist' = [hist EXCEPT !.returned = FALSE, !.ndrops = @ + 1]
  /\ UNCHANGED <<drv, tp_del, tp_finalize, debug_saveall, pc, n_collected,
                 n_uncollectable, result, ncollect>>

\* _PyGC_Initialize runs again (an embedding program initializes the
\* interpreter a second time): the objects of the heap are abandoned.
ResetHeap ==
  /\ pc = "idle"
  /\ hist.returned
  /\ mem' = PyGC_ResetHeap(mem)
  /\ pc' = "reset"
  /\ UNCHANGED <<drv, tp_del, tp_finalize, debug_saveall, n_collected,
                 n_uncollectable, result, ncollect, hist>>

Next ==
  \/ Collect_Start
  \/ Collect_LegacyFilter
  \/ Collect_Weakrefs
  \/ FinalizeStep
  \/ Collect_Resurrect
  \/ DeleteStep
  \/ Collect_Finish
  \/ \E o \in Objs : DropRoot(o)

Spec == Init /\ [][Next]_vars

\* The collector with the re-initialization of the interpreter.
NextReset ==
  \/ Next
  \/ ResetHeap

SpecReset == Init /\ [][NextReset]_vars

\* ------------------------------------------- heaps with weak references
\* Every weak reference is allocated, refers to an object, and is held either
\* by a root (holder NULL) or by one object; a weak reference owns no
\* reference that tp_traverse reports.
HeapsWR(maxroots) ==
  {InitHeap(GCObjs,
            [o \in GCObjs |-> IF o \in Objs
                               THEN x[1][o] \cup {w \in Weakrefs : x[3][w] = o}
                               ELSE {}],
            [o \in GCObjs |-> IF o \in Objs THEN x[2][o]
                               ELSE IF x[3][o] = NULL THEN 1 ELSE 0],
            x[4], x[5]) :
     x \in {y \in [Objs -> SUBSET Objs] \X [Objs -> 0..maxroots]
                  \X [Weakrefs -> Objs \cup {NULL}] \X [Weakrefs -> Objs]
                  \X [Weakrefs -> BOOLEAN] :
              /\ NumEdges(y[1]) <= MaxEdges
              /\ SumOver(y[2], Objs) <= maxroots
              /\ \A o \in Objs : InDegree(y[1], o) + y[2][o] > 0}}

InitWR ==
  /\ mem \in HeapsWR(MaxRoots)
  /\ tp_del \in {S \in SUBSET Objs : Cardinality(S) <= MaxLegacy}
  /\ tp_finalize \in {S \in SUBSET Objs : Cardinality(S) <= MaxFin}
  /\ debug_saveall \in BOOLEAN
  /\ pc = "idle"
  /\ n_collected = 0
  /\ n_uncollectable = 0
  /\ result = 0
  /\ ncollect = 0
  /\ hist = NoHist
  /\ drv = NoDrv

\* The one collection of a behaviour.
Collect_Once ==
  /\ ncollect = 0
  /\ Collect_Start

\* handle_weakrefs in a build with assertions: the assertion on the header
\* of a weak reference to queue fails and the process aborts.
Collect_WeakrefsAbort ==
  /\ pc = "weakrefs"
  /\ ~handle_weakrefs_asserts(mem, unreachable)
  /\ pc' = "aborted"
  /\ UNCHANGED <<drv, tp_del, tp_finalize, debug_saveall, n_collected,
                 n_uncollectable, result, ncollect, hist, mem>>

\* handle_weakrefs, first pass (in a build without assertions when one of
\* them would fail).
Collect_WeakrefsClear ==
  /\ pc = "weakrefs"
  /\ mem' = handle_weakrefs_clear(mem, unreachable)
  /\ pc' = "callbacks"
  /\ UNCHANGED <<drv, tp_del, tp_finalize, debug_saveall, n_collected,
                 n_uncollectable, result, ncollect, hist>>

\* handle_weakrefs, second pass, one iteration; a weak reference freed by
\* the iteration is counted (num_freed, added to n_collected).
WeakrefCallbackStep ==
  /\ pc = "callbacks"
  /\ ~gc_list_is_empty(mem, wrcb_to_call)
  /\ LET gc == GC_NEXT(mem, wrcb_to_call)
     IN \E choice \in CallbackChoices(mem, gc) :
          LET m1 == handle_weakrefs_step(mem, choice)
          IN /\ mem' = m1
             /\ n_collected' = n_collected + (IF gc \in m1.alive THEN 0 ELSE 1)
  /\ UNCHANGED <<drv, tp_del, tp_finalize, debug_saveall, pc,
                 n_uncollectable, result, ncollect, hist>>

\* The return of handle_weakrefs and the entry of finalize_garbage.
Collect_WeakrefsDone ==
  /\ pc = "callbacks"
  /\ gc_list_is_empty(mem, wrcb_to_call)
  /\ mem' = gc_list_init(mem, seen)
  /\ pc' = "finalize"
  /\ UNCHANGED <<drv, tp_del, tp_finalize, debug_saveall, n_collected,
                 n_uncollectable, result, ncollect, hist>>

\* The loop of collect() over finalizers follows a null or dangling pointer.
Collect_Crash ==
  /\ pc = "delete"
  /\ gc_list_is_empty(mem, final_unreachable)
  /\ ListBroken(mem, finalizers)
  /\ pc' = "crashed"
  /\ UNCHANGED <<drv, tp_del, tp_finalize, debug_saveall, n_collected,
                 n_uncollectable, result, ncollect, hist, mem>>

NextWR ==
  \/ Collect_Once
  \/ Collect_LegacyFilter
  \/ Collect_WeakrefsAbort
  \/ Collect_WeakrefsClear
  \/ WeakrefCallbackStep
  \/ Collect_WeakrefsDone
  \/ FinalizeStep
  \/ Collect_Resurrect
  \/ DeleteStep
  \/ Collect_Finish
  \/ Collect_Crash

SpecWR == InitWR /\ [][NextWR]_vars

\* ------------------------------------------------- the driver of collect()
\* Threads call collect() concurrently; hooks run by a collection (gc
\* callbacks, tp_finalize, tp_clear, weak-reference callbacks) may call it
\* again on the same thread. The phases between the "start" and the "stop"
\* callback are one step here.
Threads == 1..NumThreads
NoThread == NULL

GC_REASON_HEAP == "HEAP"
GC_REASON_SHUTDOWN == "SHUTDOWN"
GC_REASON_MANUAL == "MANUAL"
Reasons == {GC_REASON_HEAP, GC_REASON_SHUTDOWN, GC_REASON_MANUAL}

GC_THRESHOLD_FLOOR == 7000
GC_SCALE == 100

\* The live-object counts the program passes through.
LiveChoices == {0, GC_THRESHOLD_FLOOR, GC_THRESHOLD_FLOOR + 1}

\* A frame of collect(): its position, its argument, its return value, what
\* this call has done so far, and what the caller could see of gcstate:
\* collecting0 is the flag at the call, over is whether the live-object count
\* exceeded the threshold when the reason was tested.
NewFrame(reason, collecting) ==
  [pc |-> "check_collecting", reason |-> reason, ret |-> 0,
   nlock |-> 0, nunlock |-> 0, nstop |-> 0, nstart |-> 0, ncb |-> 0,
   nstats |-> 0, ran |-> FALSE, passed |-> FALSE,
   collecting0 |-> collecting, over |-> FALSE]

InitDrv(csws, live) ==
  [collecting |-> FALSE,
   mutex |-> NoThread,
   stopped_by |-> NoThread,
   gc_live |-> live,
   gc_threshold |-> GC_THRESHOLD_FLOOR,
   gc_scale |-> GC_SCALE,
   cant_stop_wont_stop |-> csws,
   stack |-> [t \in Threads |-> <<>>],
   ncalls |-> 0]

Depth(d, t) == Len(d.stack[t])
Top(d, t) == d.stack[t][Len(d.stack[t])]
SetTop(d, t, f) == [d EXCEPT !.stack[t][Len(d.stack[t])] = f]
At(d, t, pos) == Depth(d, t) > 0 /\ Top(d, t).pc = pos

\* A thread runs unless another thread has stopped the world.
Running(d, t) == d.stopped_by \in {NoThread, t}

PyGC_ShouldCollect(d) == d.gc_live > d.gc_threshold

gc_reason_is_valid(d, reason) ==
  IF reason = GC_REASON_HEAP THEN PyGC_ShouldCollect(d) ELSE TRUE

\* Faulty variant of update_gc_threshold: no floor.
update_gc_threshold_nofloor(d) ==
  [d EXCEPT !.gc_threshold = d.gc_live + (d.gc_live * d.gc_scale) \div 100]

update_gc_threshold(d) ==
  LET live == d.gc_live
      threshold == live + (live * d.gc_scale) \div 100
  IN [d EXCEPT !.gc_threshold = IF threshold < GC_THRESHOLD_FLOOR
                                THEN GC_THRESHOLD_FLOOR ELSE threshold]

PyMutex_lock(d, t) == [d EXCEPT !.mutex = t]
PyMutex_unlock(d, t) == [d EXCEPT !.mutex = NoThread]
StopTheWorld(d, t) == [d EXCEPT !.stopped_by = t]
StartTheWorld(d, t) == [d EXCEPT !.stopped_by = NoThread]

\* Faulty variant of the first test of collect(): the flag is not consulted.
collect_check_collecting_skip(d, t) ==
  SetTop(d, t, [Top(d, t) EXCEPT !.pc = "check_cant_stop"])

\* if (gcstate->collecting) return 0;
collect_check_collecting(d, t) ==
  IF d.collecting
  THEN SetTop(d, t, [Top(d, t) EXCEPT !.pc = "return", !.ret = 0])
  ELSE SetTop(d, t, [Top(d, t) EXCEPT !.pc = "check_cant_stop"])

\* if (tstate->cant_stop_wont_stop) return 0;
collect_check_cant_stop(d, t) ==
  IF d.cant_stop_wont_stop[t]
  THEN SetTop(d, t, [Top(d, t) EXCEPT !.pc = "return", !.ret = 0])
  ELSE SetTop(d, t, [Top(d, t) EXCEPT !.pc = "lock", !.passed = TRUE])

\* The two tests a call makes before it touches the mutex.
collect_enter(d, t) ==
  LET d1 == collect_check_collecting(d, t)
  IN IF At(d1, t, "check_cant_stop") THEN collect_check_cant_stop(d1, t)
     ELSE d1

\* _PyMutex_lock(&runtime->stoptheworld_mutex), once the mutex is free
collect_lock(d, t) ==
  SetTop(PyMutex_lock(d, t), t,
         [Top(d, t) EXCEPT !.pc = "check_reason", !.nlock = @ + 1])

\* Faulty variant of the reason test: every reason is taken to be valid.
collect_check_reason_any(d, t) ==
  SetTop(d, t, [Top(d, t) EXCEPT !.pc = "stop_world"])

\* if (!gc_reason_is_valid(gcstate, reason)) { unlock; return 0; }
collect_check_reason(d, t) ==
  LET f == Top(d, t)
  IN IF ~gc_reason_is_valid(d, f.reason)
     THEN SetTop(PyMutex_unlock(d, t), t,
                 [f EXCEPT !.pc = "return", !.ret = 0, !.nunlock = @ + 1])
     ELSE SetTop(d, t, [f EXCEPT !.pc = "stop_world"])

\* Faulty variant of the stop: the mutex is released as soon as the world
\* is stopped, before the phases have run.
collect_stop_world_unlock(d, t) ==
  SetTop(PyMutex_unlock(StopTheWorld(d, t), t), t,
         [Top(d, t) EXCEPT !.pc = "set_collecting", !.nstop = @ + 1,
                           !.nunlock = @ + 1])

\* _PyRuntimeState_StopTheWorld(runtime)
collect_stop_world(d, t) ==
  SetTop(StopTheWorld(d, t), t,
         [Top(d, t) EXCEPT !.pc = "set_collecting", !.nstop = @ + 1])

\* gcstate->collecting = 1
collect_set_collecting(d, t) ==
  SetTop([d EXCEPT !.collecting = TRUE], t,
         [Top(d, t) EXCEPT !.pc = "start_callback"])

\* if (reason != GC_REASON_SHUTDOWN) invoke_gc_callback(tstate, "start", 0, 0)
collect_start_callback(d, t) ==
  LET f == Top(d, t)
  IN SetTop(d, t, [f EXCEPT !.pc = "phases",
                            !.ncb = IF f.reason # GC_REASON_SHUTDOWN
                                    THEN @ + 1 ELSE @])

\* The phases, from _Py_explicit_merge_all to remove_deferred_reference_counts,
\* with the update of the statistics and of the threshold; found is
\* n_collected + n_uncollectable.
collect_phases(d, t, found) ==
  LET d1 == update_gc_threshold(d)
  IN SetTop(d1, t, [Top(d, t) EXCEPT !.pc = "stop_callback", !.ran = TRUE,
                                     !.nstats = @ + 1, !.ret = found])

\* if (reason != GC_REASON_SHUTDOWN) invoke_gc_callback(tstate, "stop", ...)
collect_stop_callback(d, t) ==
  LET f == Top(d, t)
  IN SetTop(d, t, [f EXCEPT !.pc = "clear_collecting",
                            !.ncb = IF f.reason # GC_REASON_SHUTDOWN
                                    THEN @ + 1 ELSE @])

\* Faulty variant of the reset of the flag: it is left set.
collect_clear_collecting_not(d, t) ==
  SetTop(d, t, [Top(d, t) EXCEPT !.pc = "start_world"])

\* gcstate->collecting = 0
collect_clear_collecting(d, t) ==
  SetTop([d EXCEPT !.collecting = FALSE], t,
         [Top(d, t) EXCEPT !.pc = "start_world"])

\* _PyRuntimeState_StartTheWorld(runtime)
collect_start_world(d, t) ==
  SetTop(StartTheWorld(d, t), t,
         [Top(d, t) EXCEPT !.pc = "unlock", !.nstart = @ + 1])

\* _PyMutex_unlock(&runtime->stoptheworld_mutex)
collect_unlock(d, t) ==
  SetTop(PyMutex_unlock(d, t), t,
         [Top(d, t) EXCEPT !.pc = "return", !.nunlock = @ + 1])

\* return: the frame is popped.
collect_return(d, t) ==
  [d EXCEPT !.stack[t] = SubSeq(@, 1, Len(@) - 1)]

\* What n_collected + n_uncollectable can be.
FoundChoices == {0, 1}

\* The positions of collect() at which a hook of the collection runs.
HookPoints == {"start_callback", "phases", "stop_callback"}

\* The positions of collect() between StopTheWorld and StartTheWorld.
StoppedPoints ==
  {"set_collecting", "start_callback", "phases", "stop_callback",
   "clear_collecting", "start_world"}

\* The frames of thread t that are inside the phases or their hooks.
InPhases(d, t) ==
  \E i \in 1..Depth(d, t) : d.stack[t][i].pc \in HookPoints

InitSTW ==
  /\ mem = InitMem([o \in Objs |-> {o}], [o \in Objs |-> 0])
  /\ tp_del = {}
  /\ tp_finalize = {}
  /\ debug_saveall = FALSE
  /\ pc = "idle"
  /\ n_collected = 0
  /\ n_uncollectable = 0
  /\ result = 0
  /\ ncollect = 0
  /\ hist = NoHist
  /\ \E csws \in [Threads -> BOOLEAN], live \in LiveChoices :
       drv = InitDrv(csws, live)

HeapVars == <<mem, tp_del, tp_finalize, debug_saveall, pc, n_collected,
              n_uncollectable, result, ncollect, hist>>

\* A step of thread t changes drv only.
Step(t, d) ==
  /\ drv' = d
  /\ UNCHANGED HeapVars

\* Managed code calls collect() (gc.collect(), an allocation, the shutdown
\* of the interpreter); the call tests the two flags.
Call(t, reason) ==
  /\ Running(drv, t)
  /\ Depth(drv, t) = 0
  /\ drv.ncalls < MaxCalls
  /\ Step(t, collect_enter(
               [drv EXCEPT !.stack[t] = <<NewFrame(reason, drv.collecting)>>,
                           !.ncalls = @ + 1], t))

\* A hook of the running collection calls collect() on the same thread; the
\* call tests the two flags.
HookCall(t, reason) ==
  /\ Running(drv, t)
  /\ Depth(drv, t) > 0
  /\ Depth(drv, t) < MaxDepth
  /\ Top(drv, t).pc \in HookPoints
  /\ Top(drv, t).pc = "phases" \/ Top(drv, t).reason # GC_REASON_SHUTDOWN
  /\ reason # GC_REASON_SHUTDOWN
  /\ Step(t, collect_enter(
               [drv EXCEPT !.stack[t] =
                             Append(@, NewFrame(reason, drv.collecting))], t))

Lock(t) ==
  /\ Running(drv, t)
  /\ At(drv, t, "lock")
  /\ drv.mutex = NoThread
  /\ Step(t, collect_lock(drv, t))

CheckReason(t) ==
  /\ Running(drv, t)
  /\ At(drv, t, "check_reason")
  /\ LET over == drv.gc_live > drv.gc_threshold
         d == SetTop(drv, t, [Top(drv, t) EXCEPT !.over = over])
     IN Step(t, collect_check_reason(d, t))

StopWorld(t) ==
  /\ Running(drv, t)
  /\ At(drv, t, "stop_world")
  /\ Step(t, collect_stop_world(drv, t))

SetCollecting(t) ==
  /\ Running(drv, t)
  /\ At(drv, t, "set_collecting")
  /\ Step(t, collect_set_collecting(drv, t))

StartCallback(t) ==
  /\ Running(drv, t)
  /\ At(drv, t, "start_callback")
  /\ Step(t, collect_start_callback(drv, t))

Phases(t) ==
  /\ Running(drv, t)
  /\ At(drv, t, "phases")
  /\ \E found \in FoundChoices : Step(t, collect_phases(drv, t, found))

StopCallback(t) ==
  /\ Running(drv, t)
  /\ At(drv, t, "stop_callback")
  /\ Step(t, collect_stop_callback(drv, t))

ClearCollecting(t) ==
  /\ Running(drv, t)
  /\ At(drv, t, "clear_collecting")
  /\ Step(t, collect_clear_collecting(drv, t))

StartWorld(t) ==
  /\ Running(drv, t)
  /\ At(drv, t, "start_world")
  /\ Step(t, collect_start_world(drv, t))

Unlock(t) ==
  /\ Running(drv, t)
  /\ At(drv, t, "unlock")
  /\ Step(t, collect_unlock(drv, t))

Return(t) ==
  /\ Running(drv, t)
  /\ At(drv, t, "return")
  /\ Step(t, collect_return(drv, t))

\* Managed code outside collect() allocates or frees objects.
Mutate(t) ==
  /\ Running(drv, t)
  /\ Depth(drv, t) = 0
  /\ \E live \in LiveChoices \ {drv.gc_live} :
       Step(t, [drv EXCEPT !.gc_live = live])

NextSTW ==
  \E t \in Threads :
    \/ \E reason \in Reasons : Call(t, reason)
    \/ \E reason \in Reasons : HookCall(t, reason)
    \/ Lock(t)
    \/ CheckReason(t)
    \/ StopWorld(t)
    \/ SetCollecting(t)
    \/ StartCallback(t)
    \/ Phases(t)
    \/ StopCallback(t)
    \/ ClearCollecting(t)
    \/ StartWorld(t)
    \/ Unlock(t)
    \/ Return(t)
    \/ Mutate(t)

SpecSTW == InitSTW /\ [][NextSTW]_vars

\* ------------------------------------------------- one call of collect()
\* One call of collect() on one thread, statement by statement: the gc
\* callbacks, the exception state of the thread, the deferred reference
\* counts and the threshold. The user code that the phases run (weak-reference
\* callbacks, tp_finalize, tp_clear) is a plan fixed with the input: a
\* sequence of hooks, each with its kind and what it does.
Gens == 1..NumGens

\* gc.callbacks entries: what the callable does when it is called.
CallbackKinds == {"ok", "raise", "remove_self", "alloc"}

\* PYTHONGC values; GC_SCALE is the default.
ScaleChoices == {0, 50, GC_SCALE}

\* tstate->use_deferred_rc at the call (remove_deferred_reference_counts
\* asserts that it is positive).
UseDeferredChoices == {1, 2}

HookKinds == {"callback", "tp_finalize", "tp_clear"}

\* What a hook does: nothing, raise, create and track a generator, or drop
\* the last reference to a generator.
HookEffects ==
  {[op |-> "none", g |-> NULL], [op |-> "raise", g |-> NULL]}
    \cup {[op |-> o, g |-> g] : o \in {"new_gen", "free_gen"}, g \in Gens}

\* The sequences over S of length at most n.
RECURSIVE SeqsUpTo(_, _)
SeqsUpTo(S, n) ==
  IF n = 0 THEN {<<>>}
  ELSE LET R == SeqsUpTo(S, n - 1)
       IN R \cup {Append(r, x) : r \in {q \in R : Len(q) = n - 1}, x \in S}

\* The hooks of one collection, in the order of the phases.
HookPlans(effects) ==
  {h \in SeqsUpTo([kind : HookKinds, eff : effects], MaxHooks) :
     \A i \in 1..(Len(h) - 1) : HookPhase(h[i].kind) <= HookPhase(h[i + 1].kind)}

\* A generator block of the heap, and the frame of the calling thread:
\* retained says that the object holds the counts PyFrame_RetainForGC or
\* _PyGen_RetainForGC added, delta is what the collector has added to its
\* counts, net.
NoGen == [alive |-> FALSE, tracked |-> FALSE, retained |-> FALSE, delta |-> 0]
NewGen == [alive |-> TRUE, tracked |-> TRUE, retained |-> FALSE, delta |-> 0]

\* The frame of the calling thread, as a member of the sets of objects.
ThreadFrame == NumGens + 1

\* in is the input of the call: the reason, the callbacks list (set says
\* that gcstate->callbacks is not NULL), the phases for which the info
\* dictionary cannot be built, the exception pending at the call, the build,
\* the hooks, what the phases find, gc_live, gc_scale, use_deferred_rc and
\* the generators of the heap.
InitRun(in) ==
  [pc |-> "call", reason |-> in.reason, ret |-> 0, completed |-> FALSE,
   debug_build |-> in.debug_build,
   collecting |-> FALSE,
   gc_live |-> in.live, gc_threshold |-> GC_THRESHOLD_FLOOR,
   gc_scale |-> in.scale,
   live_at_update |-> -1,
   callbacks_set |-> in.set,
   callbacks |-> [i \in 1..Len(in.cbs) |-> <<i, in.cbs[i]>>],
   callbacks0 |-> 1..Len(in.cbs),
   build_fails |-> in.build_fails,
   removed |-> {},
   calls |-> <<>>,
   exc0 |-> in.exc, udrc0 |-> in.udrc,
   exc |-> in.exc, raised |-> IF in.exc THEN 1 ELSE 0,
   unraisable |-> 0, cleared |-> 0, lost |-> 0,
   hooks |-> in.hooks, nhooks |-> 0, done |-> {},
   found |-> in.found, n_collected |-> 0, n_uncollectable |-> 0,
   use_deferred_rc |-> in.udrc, prev_use_deferred_rc |-> 0,
   frame |-> NewGen, gens |-> in.gens,
   retained0 |-> {}, released |-> {}, release_flags |-> {},
   collecting_at_release |-> {}]

\* An exception is raised in the thread.
\* An exception that was pending is replaced, and is lost.
PyErr_Set(d) ==
  [d EXCEPT !.exc = TRUE, !.raised = @ + 1,
            !.lost = IF d.exc THEN @ + 1 ELSE @]

\* PyErr_WriteUnraisable, _PyErr_WriteUnraisableMsg: the pending exception is
\* reported and cleared.
PyErr_WriteUnraisable(d) == [d EXCEPT !.exc = FALSE, !.unraisable = @ + 1]

\* _PyErr_Clear: the pending exception is dropped.
PyErr_Clear(d) ==
  [d EXCEPT !.exc = FALSE, !.cleared = IF d.exc THEN @ + 1 ELSE @]

\* Faulty variant of the call of one gc callback: an error of the callback
\* is left pending.
invoke_gc_callback_step_keep(d, phase, collected, uncollectable, i) ==
  LET cb == d.callbacks[i]
      d1 == [d EXCEPT !.calls = Append(@, [cb |-> cb[1], phase |-> phase,
                                           collected |-> collected,
                                           uncollectable |-> uncollectable,
                                           collecting |-> d.collecting,
                                           done |-> d.done])]
  IN IF cb[2] = "raise" THEN PyErr_Set(d1) ELSE d1

\* One iteration of the loop of invoke_gc_callback: callbacks[i] is called
\* with (phase, info); a callback of kind remove_self takes itself off the
\* list.
invoke_gc_callback_step(d, phase, collected, uncollectable, i) ==
  LET cb == d.callbacks[i]
      d1 == [d EXCEPT !.calls = Append(@, [cb |-> cb[1], phase |-> phase,
                                           collected |-> collected,
                                           uncollectable |-> uncollectable,
                                           collecting |-> d.collecting,
                                           done |-> d.done])]
  IN CASE cb[2] = "raise" -> PyErr_WriteUnraisable(PyErr_Set(d1))
       [] cb[2] = "alloc" -> [d1 EXCEPT !.gc_live = @ + 1]
       [] cb[2] = "remove_self" ->
            [d1 EXCEPT !.callbacks = SubSeq(@, 1, i - 1)
                                       \o SubSeq(@, i + 1, Len(@)),
                       !.removed = @ \cup {cb[1]}]
       [] OTHER -> d1

RECURSIVE invoke_gc_callback_from(_, _, _, _, _)
invoke_gc_callback_from(d, phase, collected, uncollectable, i) ==
  IF i > Len(d.callbacks) THEN d
  ELSE invoke_gc_callback_from(
         invoke_gc_callback_step(d, phase, collected, uncollectable, i),
         phase, collected, uncollectable, i + 1)

invoke_gc_callback(d, phase, collected, uncollectable) ==
  IF ~d.callbacks_set THEN d
  ELSE IF Len(d.callbacks) # 0 /\ phase \in d.build_fails
       THEN PyErr_WriteUnraisable(PyErr_Set(d))
       ELSE invoke_gc_callback_from(d, phase, collected, uncollectable, 1)

\* PyFrame_RetainForGC(p->frame): the counts the stack leaves out are added
\* to the frame.
PyFrame_RetainForGC(d) ==
  IF d.frame.retained THEN d
  ELSE [d EXCEPT !.frame.retained = TRUE, !.frame.delta = @ + 1]

\* PyFrame_UnretainForGC(p->frame): what the retain added is taken back.
PyFrame_UnretainForGC(d) ==
  IF ~d.frame.retained THEN d
  ELSE [d EXCEPT !.frame.retained = FALSE, !.frame.delta = @ - 1,
                 !.released = @ \cup {ThreadFrame},
                 !.release_flags = @ \cup {d.use_deferred_rc},
                 !.collecting_at_release = @ \cup {d.collecting}]

\* _PyGen_RetainForGC, PyFrame_RetainForGC of a frame found in the heap
PyGen_RetainForGC(d, g) ==
  IF d.gens[g].retained THEN d
  ELSE [d EXCEPT !.gens[g].retained = TRUE, !.gens[g].delta = @ + 1]

\* _PyGen_UnretainForGC, PyFrame_UnretainForGC of a frame found in the heap
PyGen_UnretainForGC(d, g) ==
  IF ~d.gens[g].retained THEN d
  ELSE [d EXCEPT !.gens[g].retained = FALSE, !.gens[g].delta = @ - 1,
                 !.released = @ \cup {g},
                 !.release_flags = @ \cup {d.use_deferred_rc},
                 !.collecting_at_release = @ \cup {d.collecting}]

\* find_frames(op): the heap walk calls the visitor on every tracked frame
\* and generator.
RECURSIVE find_frames_from(_, _, _)
find_frames_from(d, op, g) ==
  IF g > NumGens THEN d
  ELSE IF ~(d.gens[g].alive /\ d.gens[g].tracked)
       THEN find_frames_from(d, op, g + 1)
       ELSE find_frames_from(IF op = "RETAIN" THEN PyGen_RetainForGC(d, g)
                             ELSE PyGen_UnretainForGC(d, g), op, g + 1)

find_frames(d, op) == find_frames_from(d, op, 1)

\* The objects that hold counts added by the collector.
Retained(d) ==
  {g \in Gens : d.gens[g].alive /\ d.gens[g].retained}
    \cup (IF d.frame.retained THEN {ThreadFrame} ELSE {})

add_deferred_reference_counts(d) ==
  LET d1 == find_frames(PyFrame_RetainForGC(d), "RETAIN")
  IN [d1 EXCEPT !.retained0 = Retained(d1),
                !.prev_use_deferred_rc = d.use_deferred_rc,
                !.use_deferred_rc = 0]

\* Faulty variant of remove_deferred_reference_counts: the flag is restored
\* after the decrements.
remove_deferred_reference_counts_late(d) ==
  [find_frames(PyFrame_UnretainForGC(d), "RELEASE")
     EXCEPT !.use_deferred_rc = d.prev_use_deferred_rc]

\* Faulty variant of remove_deferred_reference_counts: the heap is not
\* walked.
remove_deferred_reference_counts_nowalk(d) ==
  PyFrame_UnretainForGC([d EXCEPT !.use_deferred_rc = d.prev_use_deferred_rc])

remove_deferred_reference_counts(d) ==
  LET d1 == [d EXCEPT !.use_deferred_rc = d.prev_use_deferred_rc]
  IN find_frames(PyFrame_UnretainForGC(d1), "RELEASE")

\* gen_new_with_qualname: the block is allocated and tracked.
gen_new(d, g) ==
  IF d.gens[g].alive THEN d
  ELSE [d EXCEPT !.gens[g] = NewGen, !.gc_live = @ + 1]

\* gen_dealloc: the last reference is gone; the generator is untracked and
\* its block is freed, with the counts it held.
gen_dealloc(d, g) ==
  IF ~d.gens[g].alive THEN d
  ELSE [d EXCEPT !.gens[g] = NoGen, !.gc_live = @ - 1]

\* Faulty variant of the call of a hook: an error of tp_clear or of a
\* weak-reference callback is left pending.
run_hook_keep(d, h) ==
  LET d1 == [d EXCEPT !.nhooks = @ + 1, !.done = @ \cup {h.kind}]
  IN CASE h.eff.op = "raise" -> PyErr_Set(d1)
       [] h.eff.op = "new_gen" -> gen_new(d1, h.eff.g)
       [] h.eff.op = "free_gen" -> gen_dealloc(d1, h.eff.g)
       [] OTHER -> d1

\* The call of one hook by handle_weakrefs, finalize_garbage or
\* delete_garbage, with what the caller does about an error.
run_hook(d, h) ==
  LET d1 == [d EXCEPT !.nhooks = @ + 1, !.done = @ \cup {h.kind}]
      d2 == CASE h.eff.op = "raise" -> PyErr_Set(d1)
              [] h.eff.op = "new_gen" -> gen_new(d1, h.eff.g)
              [] h.eff.op = "free_gen" -> gen_dealloc(d1, h.eff.g)
              [] OTHER -> d1
  IN CASE h.kind = "callback" ->
            IF h.eff.op = "raise" THEN PyErr_WriteUnraisable(d2) ELSE d2
       [] h.kind = "tp_finalize" ->
            IF h.eff.op = "raise" THEN PyErr_WriteUnraisable(d2) ELSE d2
       [] h.kind = "tp_clear" ->
            IF d2.exc THEN PyErr_WriteUnraisable(d2) ELSE d2

\* collect() from its first test to gcstate->collecting = 1.
collect_begin(d) ==
  IF ~gc_reason_is_valid(d, d.reason)
  THEN [d EXCEPT !.pc = "done", !.ret = 0]
  ELSE [d EXCEPT !.pc = "start_callback", !.collecting = TRUE]

\* An assertion on the exception state fails in a build with assertions.
AssertNoErr(d) == ~(d.debug_build /\ d.exc)

\* Faulty variant of collect_invoke_start: the reason is not tested.
collect_invoke_start_always(d) ==
  IF ~AssertNoErr(d) THEN [d EXCEPT !.pc = "aborted"]
  ELSE [invoke_gc_callback(d, "start", 0, 0) EXCEPT !.pc = "add_deferred"]

\* if (reason != GC_REASON_SHUTDOWN) invoke_gc_callback(tstate, "start", 0, 0)
collect_invoke_start(d) ==
  IF d.reason = GC_REASON_SHUTDOWN THEN [d EXCEPT !.pc = "add_deferred"]
  ELSE IF ~AssertNoErr(d) THEN [d EXCEPT !.pc = "aborted"]
  ELSE [invoke_gc_callback(d, "start", 0, 0) EXCEPT !.pc = "add_deferred"]

\* if (_PyErr_Occurred(tstate)) { clear at shutdown, else report }
collect_err_check(d) ==
  IF ~d.exc THEN d
  ELSE IF d.reason = GC_REASON_SHUTDOWN THEN PyErr_Clear(d)
  ELSE PyErr_WriteUnraisable(d)

\* The end of the phases: the counts, the error test, the statistics and the
\* threshold.
collect_stats(d) ==
  LET d1 == [d EXCEPT !.n_collected = d.found[1],
                      !.n_uncollectable = d.found[2],
                      !.done = @ \cup {"phases"}]
      d2 == collect_err_check(d1)
  IN [update_gc_threshold(d2) EXCEPT !.live_at_update = d2.gc_live,
                                     !.pc = "remove_deferred"]

\* if (reason != GC_REASON_SHUTDOWN) invoke_gc_callback(tstate, "stop", ...)
collect_invoke_stop(d) ==
  IF ~AssertNoErr(d) THEN [d EXCEPT !.pc = "aborted"]
  ELSE IF d.reason = GC_REASON_SHUTDOWN THEN [d EXCEPT !.pc = "clear_collecting"]
  ELSE [invoke_gc_callback(d, "stop", d.n_collected, d.n_uncollectable)
          EXCEPT !.pc = "clear_collecting"]

\* The input of a call that finds nothing and runs no user code.
PlainInput ==
  [reason |-> GC_REASON_MANUAL, cbs |-> <<>>, set |-> TRUE, build_fails |-> {},
   exc |-> FALSE, debug_build |-> FALSE, hooks |-> <<>>, found |-> <<0, 0>>,
   live |-> GC_THRESHOLD_FLOOR + 1, scale |-> GC_SCALE, udrc |-> 1,
   gens |-> [g \in Gens |-> NoGen]]

\* Calls that differ in the callbacks list.
CallbackInputs(maxcb) ==
  {[PlainInput EXCEPT !.reason = r, !.cbs = cbs, !.set = set,
                      !.build_fails = bf, !.found = f] :
     r \in Reasons, cbs \in SeqsUpTo(CallbackKinds, maxcb), set \in BOOLEAN,
     bf \in SUBSET {"start", "stop"}, f \in FoundChoices \X FoundChoices}

\* Calls that differ in the errors of the user code.  _PyGC_Collect
\* (GC_REASON_HEAP) can call collect() with an exception pending, and so can
\* _PyGC_CollectNoFail (GC_REASON_SHUTDOWN) in a build without assertions;
\* PyGC_Collect puts the exception aside and gc.collect() has none.
ErrorInputs(maxcb) ==
  {[PlainInput EXCEPT !.reason = r, !.cbs = cbs, !.hooks = h,
                      !.exc = e[1], !.debug_build = e[2]] :
     r \in Reasons, cbs \in {<<>>, <<"raise">>},
     h \in HookPlans({e \in HookEffects : e.op \in {"none", "raise"}}),
     e \in {<<FALSE, FALSE>>, <<FALSE, TRUE>>, <<TRUE, FALSE>>, <<TRUE, TRUE>>}}

\* Calls that differ in gc_live and gc_scale.
PolicyInputs(maxcb) ==
  {[PlainInput EXCEPT !.reason = r, !.cbs = cbs, !.live = l, !.scale = sc,
                      !.hooks = h] :
     r \in Reasons, cbs \in {<<>>, <<"alloc">>}, l \in LiveChoices,
     sc \in ScaleChoices,
     h \in {<<>>, <<[kind |-> "tp_finalize",
                     eff |-> [op |-> "new_gen", g |-> 1]]>>}}

\* Calls that differ in the frames and generators of the heap.
DeferredInputs(maxcb) ==
  {[PlainInput EXCEPT !.gens = gens, !.udrc = u, !.hooks = h,
                      !.live = GC_THRESHOLD_FLOOR + 1 + NumGens] :
     gens \in [Gens -> {NoGen, NewGen}], u \in UseDeferredChoices,
     h \in {p \in HookPlans({e \in HookEffects : e.op # "raise"}) :
              \A i \in 1..Len(p) : p[i].kind = "tp_finalize"}}

InitRunHeap ==
  /\ mem = InitMem([o \in Objs |-> {o}], [o \in Objs |-> 0])
  /\ tp_del = {}
  /\ tp_finalize = {}
  /\ debug_saveall = FALSE
  /\ pc = "idle"
  /\ n_collected = 0
  /\ n_uncollectable = 0
  /\ result = 0
  /\ ncollect = 0
  /\ hist = NoHist

InitRunOf(in) ==
  /\ InitRunHeap
  /\ (in.exc => in.reason \in {GC_REASON_HEAP, GC_REASON_SHUTDOWN})
  /\ (in.exc /\ in.reason = GC_REASON_SHUTDOWN => ~in.debug_build)
  /\ (~in.set => in.cbs = <<>>)
  /\ drv = InitRun(in)

InitCallbacks == \E in \in CallbackInputs(MaxCallbacks) : InitRunOf(in)
InitErrors == \E in \in ErrorInputs(MaxCallbacks) : InitRunOf(in)
InitPolicy == \E in \in PolicyInputs(MaxCallbacks) : InitRunOf(in)
InitDeferred == \E in \in DeferredInputs(MaxCallbacks) : InitRunOf(in)

InitOneCall == InitCallbacks \/ InitErrors \/ InitPolicy \/ InitDeferred

RunStep(d) ==
  /\ drv' = d
  /\ UNCHANGED HeapVars

Run_Call ==
  /\ drv.pc = "call"
  /\ RunStep(collect_begin(drv))

Run_StartCallback ==
  /\ drv.pc = "start_callback"
  /\ RunStep(collect_invoke_start(drv))

Run_AddDeferred ==
  /\ drv.pc = "add_deferred"
  /\ RunStep([add_deferred_reference_counts(drv) EXCEPT !.pc = "phases"])

Run_Hook ==
  /\ drv.pc = "phases"
  /\ drv.nhooks < Len(drv.hooks)
  /\ RunStep(run_hook(drv, drv.hooks[drv.nhooks + 1]))

Run_Stats ==
  /\ drv.pc = "phases"
  /\ drv.nhooks = Len(drv.hooks)
  /\ RunStep(collect_stats(drv))

Run_RemoveDeferred ==
  /\ drv.pc = "remove_deferred"
  /\ RunStep([remove_deferred_reference_counts(drv)
                EXCEPT !.pc = "stop_callback"])

Run_StopCallback ==
  /\ drv.pc = "stop_callback"
  /\ RunStep(collect_invoke_stop(drv))

Run_ClearCollecting ==
  /\ drv.pc = "clear_collecting"
  /\ RunStep([drv EXCEPT !.collecting = FALSE, !.pc = "return"])

Run_Return ==
  /\ drv.pc = "return"
  /\ RunStep([drv EXCEPT !.pc = "done", !.completed = TRUE,
                         !.ret = drv.n_collected + drv.n_uncollectable])

NextOneCall ==
  \/ Run_Call
  \/ Run_StartCallback
  \/ Run_AddDeferred
  \/ Run_Hook
  \/ Run_Stats
  \/ Run_RemoveDeferred
  \/ Run_StopCallback
  \/ Run_ClearCollecting
  \/ Run_Return

SpecOneCall == InitOneCall /\ [][NextOneCall]_vars

\* ------------------------------------------------------- the heap walk
\* One call of visit_heap over the mimalloc heaps of the thread states and
\* the two lists of abandoned segments.  A page is the sequence of its
\* blocks, a heap the sequence of the pages of its queues, a segment the
\* sequence of its pages with segment_in_use and tag.
Blocks == 1..NumBlocks
WalkHeaps == {1, 2}

\* Where a block lies: page 1 or 2 of heap 1, the page of heap 2, a page in
\* use of an abandoned segment, a page not in use of that segment, a page of
\* another tag in a second abandoned segment, a page of a segment of the
\* abandoned-visited list.
HeapPlaces == {1, 2, 3}
Places == 1..7

BlocksAt(loc, l) == SetToSeq({b \in Blocks : loc[b] = l})

PagesOf(loc, ls) ==
  SelectSeq([i \in 1..Len(ls) |-> BlocksAt(loc, ls[i])], LAMBDA pg : pg # <<>>)

SegPage(loc, l, in_use, gc) ==
  [segment_in_use |-> in_use, tag_gc |-> gc, blocks |-> BlocksAt(loc, l)]

\* err_at is the block on which the visitor returns non-zero (NULL: none);
\* visits and order record the calls of the visitor.
InitWalk(tstate, loc, tracked, err_at, mutex_set) ==
  [pc |-> "lock", mutex_set |-> mutex_set, locked |-> FALSE,
   nlock |-> 0, nunlock |-> 0,
   tstate |-> tstate, t |-> 1,
   heap |-> [h \in WalkHeaps |->
               LET pages == IF h = 1 THEN PagesOf(loc, <<1, 2>>)
                            ELSE PagesOf(loc, <<3>>)
               IN [pages |-> pages, page_count |-> Len(pages),
                   visited |-> FALSE]],
   abandoned |-> << <<SegPage(loc, 4, TRUE, TRUE), SegPage(loc, 5, FALSE, TRUE)>>,
                    <<SegPage(loc, 6, TRUE, FALSE)>> >>,
   abandoned_visited |-> << <<SegPage(loc, 7, TRUE, TRUE)>> >>,
   loc |-> loc, tracked |-> tracked, err_at |-> err_at,
   err |-> 0, ret |-> 0,
   visits |-> [b \in Blocks |-> 0], order |-> <<>>]

\* (*visitor)(gc, arg)
walk_visitor(w, b) ==
  [w EXCEPT !.visits[b] = @ + 1, !.order = Append(@, b),
            !.err = IF b = w.err_at THEN 10 + b ELSE 0]

RECURSIVE visit_page_from(_, _, _)
visit_page_from(w, page, i) ==
  IF i > Len(page) THEN [w EXCEPT !.err = 0]
  ELSE IF ~w.tracked[page[i]] THEN visit_page_from(w, page, i + 1)
  ELSE LET w1 == walk_visitor(w, page[i])
       IN IF w1.err # 0 THEN w1 ELSE visit_page_from(w1, page, i + 1)

visit_page(w, page) == visit_page_from(w, page, 1)

\* The pages of a segment from index i, then the next segments of the list.
RECURSIVE visit_segment_from(_, _, _, _)
visit_segment_from(w, segs, k, i) ==
  IF k > Len(segs) THEN [w EXCEPT !.err = 0]
  ELSE IF i > Len(segs[k]) THEN visit_segment_from(w, segs, k + 1, 1)
  ELSE LET page == segs[k][i]
       IN IF page.segment_in_use /\ page.tag_gc
          THEN LET w1 == visit_page(w, page.blocks)
               IN IF w1.err # 0 THEN w1
                  ELSE visit_segment_from(w1, segs, k, i + 1)
          ELSE visit_segment_from(w, segs, k, i + 1)

visit_segment(w, segs) == visit_segment_from(w, segs, 1, 1)

\* The loop of visit_heap over the pages of the queues of one heap.
RECURSIVE visit_heap_pages(_, _, _)
visit_heap_pages(w, pages, i) ==
  IF i > Len(pages) THEN [w EXCEPT !.err = 0]
  ELSE LET w1 == visit_page(w, pages[i])
       IN IF w1.err # 0 THEN w1 ELSE visit_heap_pages(w1, pages, i + 1)

\* Faulty variant of visit_heap_thread: heap->visited is not set.
visit_heap_thread_unmarked(w) ==
  LET h == w.tstate[w.t]
  IN IF h = NULL \/ w.heap[h].visited \/ w.heap[h].page_count = 0
     THEN [w EXCEPT !.t = @ + 1]
     ELSE LET w1 == visit_heap_pages(w, w.heap[h].pages, 1)
          IN IF w1.err # 0 THEN [w1 EXCEPT !.pc = "end"]
             ELSE [w1 EXCEPT !.t = @ + 1]

\* One iteration of the loop of visit_heap over the thread states.
visit_heap_thread(w) ==
  LET h == w.tstate[w.t]
  IN IF h = NULL \/ w.heap[h].visited \/ w.heap[h].page_count = 0
     THEN [w EXCEPT !.t = @ + 1]
     ELSE LET w1 == visit_heap_pages(w, w.heap[h].pages, 1)
          IN IF w1.err # 0 THEN [w1 EXCEPT !.pc = "end"]
             ELSE [w1 EXCEPT !.heap[h].visited = TRUE, !.t = @ + 1]

\* The label end of visit_heap: the flags are reset, the lock is released.
visit_heap_end(w) ==
  [w EXCEPT !.heap = [h \in WalkHeaps |->
                        IF \E t \in 1..Len(w.tstate) : w.tstate[t] = h
                        THEN [w.heap[h] EXCEPT !.visited = FALSE]
                        ELSE w.heap[h]],
            !.locked = IF w.mutex_set THEN FALSE ELSE @,
            !.nunlock = IF w.mutex_set THEN @ + 1 ELSE @,
            !.ret = w.err,
            !.pc = "done"]

\* Walks that differ in the heaps of the thread states.
InitWalkHeaps ==
  \E tstate \in [Threads -> WalkHeaps \cup {NULL}], loc \in [Blocks -> HeapPlaces],
     tracked \in [Blocks -> BOOLEAN], err_at \in Blocks \cup {NULL},
     mutex_set \in BOOLEAN :
    drv = InitWalk(tstate, loc, tracked, err_at, mutex_set)

\* Walks that differ in the pages and segments.
InitWalkSegments ==
  \E loc \in [Blocks -> Places], tracked \in [Blocks -> BOOLEAN],
     err_at \in Blocks \cup {NULL}, mutex_set \in BOOLEAN :
    drv = InitWalk([t \in Threads |-> IF t = 1 THEN 1 ELSE 2], loc, tracked,
                   err_at, mutex_set)

InitWalks ==
  /\ InitRunHeap
  /\ (InitWalkHeaps \/ InitWalkSegments)

VisitHeap_Lock ==
  /\ drv.pc = "lock"
  /\ RunStep([drv EXCEPT !.locked = IF drv.mutex_set THEN TRUE ELSE @,
                         !.nlock = IF drv.mutex_set THEN @ + 1 ELSE @,
                         !.pc = "threads"])

VisitHeap_Thread ==
  /\ drv.pc = "threads"
  /\ drv.t <= Len(drv.tstate)
  /\ RunStep(visit_heap_thread(drv))

VisitHeap_Abandoned ==
  /\ drv.pc = "threads"
  /\ drv.t > Len(drv.tstate)
  /\ LET w1 == visit_segment(drv, drv.abandoned)
     IN RunStep([w1 EXCEPT !.pc = IF w1.err # 0 THEN "end"
                                  ELSE "abandoned_visited"])

VisitHeap_AbandonedVisited ==
  /\ drv.pc = "abandoned_visited"
  /\ RunStep([visit_segment(drv, drv.abandoned_visited) EXCEPT !.pc = "end"])

VisitHeap_End ==
  /\ drv.pc = "end"
  /\ RunStep(visit_heap_end(drv))

NextWalk ==
  \/ VisitHeap_Lock
  \/ VisitHeap_Thread
  \/ VisitHeap_Abandoned
  \/ VisitHeap_AbandonedVisited
  \/ VisitHeap_End

SpecWalk == InitWalks /\ [][NextWalk]_vars

\* ------------------------------------------------- the kernel, step by step
\* update_refs, subtract_refs and the loop of move_unreachable, one iteration
\* at a time, on heaps in which every header is a plain container.
RECURSIVE SubsetsUpTo(_, _)
SubsetsUpTo(S, k) ==
  IF k = 0 THEN {{}}
  ELSE LET P == SubsetsUpTo(S, k - 1)
       IN P \cup {p \cup {e} : p \in P, e \in S}

\* The heap with the allocated objects alive, the references E, a root for
\* each object of R, and the objects of U not tracked.
KernelHeap(alive, E, R, U) ==
  LET h == InitHeap(alive,
                    [o \in GCObjs |-> {q \in GCObjs : <<o, q>> \in E}],
                    [o \in GCObjs |-> IF o \in R THEN 1 ELSE 0],
                    [w \in Weakrefs |-> NULL],
                    [w \in Weakrefs |-> FALSE])
  IN [h EXCEPT !.flags = [n \in Nodes |-> IF n \in U THEN {} ELSE h.flags[n]]]

\* Every allocated object is referenced (by an edge or by a root).
KernelReferenced(a, E, R) == \A o \in a : o \in R \/ \E e \in E : e[2] = o

\* collect() at the call of update_refs(&young): young and dead initialized.
InitKernelRun(m) ==
  [pc |-> "update_refs",
   m |-> gc_list_init(gc_list_init(m, young), dead),
   prev |-> NULL,
   gc |-> NULL,
   ntraverse |-> [o \in GCObjs |-> 0],
   nin |-> [o \in GCObjs |-> 0],
   nback |-> [o \in GCObjs |-> 0],
   back_moved |-> {}]

InitKernel ==
  /\ InitRunHeap
  /\ \E a \in (SUBSET GCObjs) \ {{}} :
       \E E \in SubsetsUpTo(a \X a, MaxEdges), R \in SubsetsUpTo(a, MaxRoots),
          U \in {{}} \cup {{o} : o \in a} :
         /\ KernelReferenced(a, E, R)
         /\ drv = InitKernelRun(KernelHeap(a, E, R, U))

Kernel_UpdateRefs ==
  /\ drv.pc = "update_refs"
  /\ RunStep([drv EXCEPT !.m = update_refs(drv.m, young),
                         !.pc = "subtract_refs"])

Kernel_SubtractRefs ==
  /\ drv.pc = "subtract_refs"
  /\ RunStep([drv EXCEPT !.m = subtract_refs(drv.m, young),
                         !.pc = "deduce"])

\* deduce_unreachable: gc_list_init(unreachable) and the entry of
\* move_unreachable.
Kernel_MoveEnter ==
  /\ drv.pc = "deduce"
  /\ LET m1 == gc_list_init(drv.m, unreachable)
     IN RunStep([drv EXCEPT !.m = m1,
                            !.prev = young,
                            !.gc = GC_NEXT(m1, young),
                            !.pc = "move"])

\* The objects a step moved from unreachable back to young.
MovedBack(m1, m2) ==
  {o \in GCObjs : GC_BITS_IS_UNREACHABLE(m1, o) /\ ~GC_BITS_IS_UNREACHABLE(m2, o)}

\* One iteration of the loop, with the counts of traversals and moves.
Kernel_MoveStep ==
  /\ drv.pc = "move"
  /\ drv.gc # young
  /\ LET gc == drv.gc
         st == move_unreachable_step([m |-> drv.m, prev |-> drv.prev, gc |-> gc],
                                     young, unreachable)
         scanned == gc_get_refs(drv.m, gc) # 0
         back == MovedBack(drv.m, st.m)
     IN RunStep([drv EXCEPT
                   !.m = st.m,
                   !.prev = st.prev,
                   !.gc = st.gc,
                   !.ntraverse[gc] = IF scanned THEN @ + 1 ELSE @,
                   !.nin[gc] = IF scanned THEN @ ELSE @ + 1,
                   !.nback = [o \in GCObjs |-> IF o \in back THEN @[o] + 1 ELSE @[o]],
                   !.back_moved = IF scanned /\ drv.nback[gc] > 0 /\ back # {}
                                  THEN @ \cup {gc} ELSE @])

\* The exit of the loop: young->_gc_prev = prev.
Kernel_MoveDone ==
  /\ drv.pc = "move"
  /\ drv.gc = young
  /\ RunStep([drv EXCEPT !.m = [drv.m EXCEPT !.prev[young] = AS_PTR(drv.prev)],
                         !.pc = "done"])

NextKernel ==
  \/ Kernel_UpdateRefs
  \/ Kernel_SubtractRefs
  \/ Kernel_MoveEnter
  \/ Kernel_MoveStep
  \/ Kernel_MoveDone

SpecKernel == InitKernel /\ [][NextKernel]_vars

\* The same program run to completion: collect() is sequential code, each
\* enabled step is taken.
SpecKernelFair == SpecKernel /\ WF_vars(NextKernel)

\* ------------------------------------------- generators, asend and athrow
\* One generator object with one asend awaitable and one athrow awaitable
\* (genobject2.c). The values of the status enumeration are not in the
\* sources: both layouts with GEN_STARTED and GEN_YIELD below GEN_RUNNING are
\* taken.
GenEnums ==
  {[GEN_STARTED |-> 0, GEN_YIELD |-> 1, GEN_RUNNING |-> 2, GEN_ERROR |-> 3,
    GEN_FINISHED |-> 4],
   [GEN_STARTED |-> 1, GEN_YIELD |-> 0, GEN_RUNNING |-> 2, GEN_ERROR |-> 3,
    GEN_FINISHED |-> 4]}

AWAITABLE_STATE_INIT == 0
AWAITABLE_STATE_ITER == 1
AWAITABLE_STATE_CLOSED == 2

\* What the evaluation of the generator's code does when it is resumed: it
\* yields a value (an async generator yields a wrapped value at an async
\* yield), returns, or raises.
EvalOutcomes(g) ==
  {[kind |-> "yield", val |-> "value"], [kind |-> "return", val |-> "NULL"]}
    \cup (IF g.is_async THEN {[kind |-> "yield", val |-> "wrapped"]} ELSE {})
    \cup {[kind |-> "raise", val |-> e] : e \in {"Other", "StopIteration", "GeneratorExit"}}

\* An exception thrown into the generator is not handled (vm_exception_unwind
\* finds no handler), or a handler resumes the code.
ThrowOutcomes(g) ==
  {[kind |-> "unhandled", val |-> "NULL"]}
    \cup (IF g.status = g.enum.GEN_YIELD THEN EvalOutcomes(g) ELSE {})

SendArgs == {"None", "val"}
ThrowArgs == {"GeneratorExit", "Other", "bad"}

\* The state at the entry of a call: no error is set, nothing was resumed.
GenCall(g, op, arg) ==
  [g EXCEPT !.op = op, !.arg = arg, !.res = "NULL", !.exc = "none",
            !.resumed = FALSE, !.set_running = FALSE,
            !.status0 = g.status, !.ags0 = g.ags_state, !.agt0 = g.agt_state,
            !.running0 = g.running_async, !.nops = @ + 1]

Raise(g, exc) == [g EXCEPT !.exc = exc, !.res = "NULL"]

gen_send_internal(g, out) ==
  LET g1 == [g EXCEPT !.status = g.enum.GEN_RUNNING, !.resumed = TRUE]
  IN CASE out.kind = "yield" ->
            [g1 EXCEPT !.status = g.enum.GEN_YIELD, !.res = out.val]
       [] out.kind = "return" ->
            Raise([g1 EXCEPT !.status = g.enum.GEN_FINISHED],
                  IF g.is_async THEN "StopAsyncIteration" ELSE "StopIteration")
       [] OTHER ->
            Raise([g1 EXCEPT !.status = g.enum.GEN_ERROR],
                  IF out.val = "StopIteration" THEN "RuntimeError" ELSE out.val)

gen_status_error(g) ==
  IF g.status = g.enum.GEN_RUNNING THEN Raise(g, "ValueError")
  ELSE Raise(g, IF g.is_async THEN "StopAsyncIteration" ELSE "StopIteration")

\* Faulty variant of _PyGen2_Send: the check of a just-started generator
\* compares gen->status instead of assigning to it.
PyGen2_Send_eq(g, arg, out) ==
  IF g.status >= g.enum.GEN_RUNNING THEN gen_status_error(g)
  ELSE IF g.status = g.enum.GEN_STARTED /\ arg # "None"
  THEN Raise(g, "TypeError")
  ELSE gen_send_internal(g, out)

\* _PyGen2_Send: the condition gen->status = GEN_STARTED && arg != Py_None
\* stores the value of the conjunction in gen->status and tests it.
PyGen2_Send(g, arg, out) ==
  IF g.status >= g.enum.GEN_RUNNING THEN gen_status_error(g)
  ELSE LET v == IF g.enum.GEN_STARTED # 0 /\ arg # "None" THEN 1 ELSE 0
           g1 == [g EXCEPT !.status = v]
       IN IF v # 0 THEN Raise(g1, "TypeError")
          ELSE gen_send_internal(g1, out)

gen_iternext(g, out) ==
  IF g.status >= g.enum.GEN_RUNNING THEN gen_status_error(g)
  ELSE gen_send_internal(g, out)

gen_throw_current(g, out) ==
  IF out.kind = "unhandled" THEN [g EXCEPT !.status = g.enum.GEN_ERROR, !.res = "NULL"]
  ELSE gen_send_internal(g, out)

\* _gen_throw on a generator that delegates to no other iterator.
gen_throw_typ(g, typ, out) == gen_throw_current([g EXCEPT !.exc = typ], out)

gen_throw(g, args, out) ==
  IF args = "bad" THEN Raise(g, "TypeError") ELSE gen_throw_typ(g, args, out)

async_gen_unwrap_value(g) ==
  IF g.res = "NULL"
  THEN LET exc == IF g.exc = "none" THEN "StopAsyncIteration" ELSE g.exc
       IN [g EXCEPT !.exc = exc,
                    !.closed = IF exc \in {"StopAsyncIteration", "GeneratorExit"}
                               THEN 1 ELSE @,
                    !.running_async = 0]
  ELSE IF g.res = "wrapped"
  THEN [Raise(g, "StopIteration") EXCEPT !.running_async = 0]
  ELSE g

\* Faulty variant of async_gen_asend_send: a closed awaitable is used again.
async_gen_asend_send_reuse(g, arg, out) ==
  LET g1 == [g EXCEPT !.ags_state = AWAITABLE_STATE_ITER,
                      !.running_async = 1, !.set_running = TRUE]
      g2 == async_gen_unwrap_value(PyGen2_Send(g1, IF arg = "NULL" THEN "None" ELSE arg, out))
  IN IF g2.res = "NULL" THEN [g2 EXCEPT !.ags_state = AWAITABLE_STATE_CLOSED]
     ELSE g2

async_gen_asend_send(g, arg, out) ==
  IF g.ags_state = AWAITABLE_STATE_CLOSED THEN Raise(g, "RuntimeError")
  ELSE IF g.ags_state = AWAITABLE_STATE_INIT /\ g.running_async # 0
  THEN Raise(g, "RuntimeError")
  ELSE LET init == g.ags_state = AWAITABLE_STATE_INIT
           arg1 == IF init /\ arg \in {"NULL", "None"} THEN g.ags_sendval ELSE arg
           arg2 == IF arg1 = "NULL" THEN "None" ELSE arg1
           g1 == IF init THEN [g EXCEPT !.ags_state = AWAITABLE_STATE_ITER] ELSE g
           g2 == [g1 EXCEPT !.running_async = 1, !.set_running = TRUE]
           g3 == async_gen_unwrap_value(PyGen2_Send(g2, arg2, out))
       IN IF g3.res = "NULL" THEN [g3 EXCEPT !.ags_state = AWAITABLE_STATE_CLOSED]
          ELSE g3

async_gen_asend_throw(g, args, out) ==
  IF g.ags_state = AWAITABLE_STATE_CLOSED THEN Raise(g, "RuntimeError")
  ELSE LET g1 == async_gen_unwrap_value(gen_throw(g, args, out))
       IN IF g1.res = "NULL" THEN [g1 EXCEPT !.ags_state = AWAITABLE_STATE_CLOSED]
          ELSE g1

async_gen_asend_close(g) ==
  [g EXCEPT !.ags_state = AWAITABLE_STATE_CLOSED, !.res = "None"]

\* The labels yield_close and check_error of async_gen_athrow_send.
athrow_yield_close(g) == Raise([g EXCEPT !.running_async = 0], "RuntimeError")

athrow_check_error(g) ==
  LET g1 == [g EXCEPT !.running_async = 0]
  IN IF g1.exc \in {"StopAsyncIteration", "GeneratorExit"}
     THEN LET g2 == [g1 EXCEPT !.agt_state = AWAITABLE_STATE_CLOSED]
          IN IF g.agt_args = "NULL" THEN Raise(g2, "StopIteration") ELSE g2
     ELSE g1

async_gen_athrow_send(g, arg, out) ==
  IF \/ g.agt_state = AWAITABLE_STATE_CLOSED
     \/ g.status = g.enum.GEN_ERROR
     \/ g.status = g.enum.GEN_FINISHED
  THEN Raise(g, "RuntimeError")
  ELSE IF g.agt_state = AWAITABLE_STATE_INIT
  THEN IF g.running_async # 0 THEN Raise(g, "RuntimeError")
       ELSE IF g.closed # 0
       THEN Raise([g EXCEPT !.agt_state = AWAITABLE_STATE_CLOSED], "StopAsyncIteration")
       ELSE IF arg # "None" THEN Raise(g, "RuntimeError")
       ELSE LET g1 == [g EXCEPT !.agt_state = AWAITABLE_STATE_ITER,
                                !.running_async = 1, !.set_running = TRUE]
            IN IF g.agt_args = "NULL"
               THEN LET g2 == gen_throw_typ([g1 EXCEPT !.closed = 1], "GeneratorExit", out)
                    IN IF g2.res = "wrapped" THEN athrow_yield_close(g2)
                       ELSE IF g2.res = "NULL" THEN athrow_check_error(g2)
                       ELSE g2
               ELSE IF g.agt_args = "bad" THEN Raise(g1, "TypeError")
               ELSE LET g2 == async_gen_unwrap_value(gen_throw_typ(g1, g.agt_args, out))
                    IN IF g2.res = "NULL" THEN athrow_check_error(g2) ELSE g2
  ELSE LET g1 == PyGen2_Send(g, arg, out)
       IN IF g.agt_args # "NULL" THEN async_gen_unwrap_value(g1)
          ELSE IF g1.res = "wrapped"
          THEN athrow_yield_close([g1 EXCEPT !.running_async = 0])
          ELSE IF g1.res = "NULL" THEN athrow_check_error(g1)
          ELSE g1

async_gen_athrow_throw(g, args, out) ==
  IF g.agt_state = AWAITABLE_STATE_CLOSED THEN Raise(g, "RuntimeError")
  ELSE LET g1 == gen_throw(g, args, out)
       IN IF g.agt_args # "NULL" THEN async_gen_unwrap_value(g1)
          ELSE IF g1.res = "wrapped"
          THEN Raise([g1 EXCEPT !.running_async = 0], "RuntimeError")
          ELSE IF g1.exc \in {"StopAsyncIteration", "GeneratorExit"}
          THEN [g1 EXCEPT !.exc = "StopIteration"]
          ELSE g1

async_gen_athrow_close(g) ==
  [g EXCEPT !.agt_state = AWAITABLE_STATE_CLOSED, !.res = "None"]

\* gen_new_with_qualname, async_gen_asend_new, async_gen_athrow_new.
InitGenRun(enum, is_async, sendval, args) ==
  [enum |-> enum, is_async |-> is_async, status |-> enum.GEN_STARTED,
   running_async |-> 0, closed |-> 0,
   ags_state |-> AWAITABLE_STATE_INIT, ags_sendval |-> sendval,
   agt_state |-> AWAITABLE_STATE_INIT, agt_args |-> args,
   op |-> "new", arg |-> "NULL", res |-> "None", exc |-> "none",
   resumed |-> FALSE, set_running |-> FALSE,
   status0 |-> enum.GEN_STARTED, ags0 |-> AWAITABLE_STATE_INIT,
   agt0 |-> AWAITABLE_STATE_INIT, running0 |-> 0, nops |-> 0]

InitGen ==
  /\ InitRunHeap
  /\ \E enum \in GenEnums, is_async \in BOOLEAN,
        sendval \in {"NULL", "val"}, args \in {"NULL"} \cup ThrowArgs :
       /\ ~is_async => sendval = "NULL" /\ args = "NULL"
       /\ drv = InitGenRun(enum, is_async, sendval, args)

Gen_Send ==
  /\ ~drv.is_async /\ drv.nops < MaxSends
  /\ \E arg \in SendArgs, out \in EvalOutcomes(drv) :
       RunStep(PyGen2_Send(GenCall(drv, "send", arg), arg, out))

Gen_Next ==
  /\ ~drv.is_async /\ drv.nops < MaxSends
  /\ \E out \in EvalOutcomes(drv) :
       RunStep(gen_iternext(GenCall(drv, "next", "None"), out))

Gen_Throw ==
  /\ ~drv.is_async /\ drv.nops < MaxSends
  /\ \E args \in ThrowArgs, out \in ThrowOutcomes(drv) :
       RunStep(gen_throw(GenCall(drv, "throw", args), args, out))

\* async_gen_asend_send, and async_gen_asend_iternext with the argument NULL.
ASend_Send ==
  /\ drv.is_async /\ drv.nops < MaxSends
  /\ \E arg \in SendArgs \cup {"NULL"}, out \in EvalOutcomes(drv) :
       RunStep(async_gen_asend_send(GenCall(drv, "asend_send", arg), arg, out))

ASend_Throw ==
  /\ drv.is_async /\ drv.nops < MaxSends
  /\ \E args \in ThrowArgs, out \in ThrowOutcomes(drv) :
       RunStep(async_gen_asend_throw(GenCall(drv, "asend_throw", args), args, out))

ASend_Close ==
  /\ drv.is_async /\ drv.nops < MaxSends
  /\ RunStep(async_gen_asend_close(GenCall(drv, "asend_close", "NULL")))

\* async_gen_athrow_send, and async_gen_athrow_iternext with the argument None.
AThrow_Send ==
  /\ drv.is_async /\ drv.nops < MaxSends
  /\ \E arg \in SendArgs, out \in (IF drv.agt_state = AWAITABLE_STATE_INIT
                                   THEN ThrowOutcomes(drv) ELSE EvalOutcomes(drv)) :
       RunStep(async_gen_athrow_send(GenCall(drv, "athrow_send", arg), arg, out))

AThrow_Throw ==
  /\ drv.is_async /\ drv.nops < MaxSends
  /\ \E args \in ThrowArgs, out \in ThrowOutcomes(drv) :
       RunStep(async_gen_athrow_throw(GenCall(drv, "athrow_throw", args), args, out))

AThrow_Close ==
  /\ drv.is_async /\ drv.nops < MaxSends
  /\ RunStep(async_gen_athrow_close(GenCall(drv, "athrow_close", "NULL")))

NextGen ==
  \/ Gen_Send
  \/ Gen_Next
  \/ Gen_Throw
  \/ ASend_Send
  \/ ASend_Throw
  \/ ASend_Close
  \/ AThrow_Send
  \/ AThrow_Throw
  \/ AThrow_Close

SpecGen == InitGen /\ [][NextGen]_vars

\* ------------------------------------------------------------- properties
\* collect() has just returned and the program has not run since.
AtReturn == pc = "idle" /\ hist.returned

\* The objects of within reachable from S along the references refs.
RECURSIVE ReachFrom(_, _, _)
ReachFrom(refs, S, within) ==
  LET T == S \cup {q \in within : \E p \in S : q \in refs[p]}
  IN IF T = S THEN S ELSE ReachFrom(refs, T, within)

\* The roots and the garbage of the heap the current collection started on.
Roots0 == {o \in hist.alive0 : hist.ext0[o] > 0}
Garbage0 == hist.alive0 \ ReachFrom(hist.refs0, Roots0, hist.alive0)

\* S is a non-empty set of objects of that heap which nothing outside S
\* references: no root and no object outside S.
ClosedGarbage(S) ==
  /\ S # {}
  /\ S \subseteq hist.alive0
  /\ \A o \in S : hist.ext0[o] = 0
  /\ \A p \in hist.alive0 \ S : hist.refs0[p] \cap S = {}

\* S is a closed set of garbage without tp_del whose finalizers resurrect nothing.
PlainGarbage(S) ==
  /\ ClosedGarbage(S)
  /\ S \cap tp_del = {}
  /\ S \cap mem.resurrected = {}

\* C1 (as amended): with the default debug flags, when collect() returns,
\* every set of cyclic garbage that nothing outside references, that holds no
\* tp_del object and that no tp_finalize resurrected has been placed whole in
\* final_unreachable and freed whole; tp_clear was called on at least one of
\* its objects and only on objects of final_unreachable (an object freed as
\* a side effect of an earlier tp_clear is never cleared by the collector);
\* the return value is the size of the set when the set is all the garbage.
C1_CycleCompleteness ==
  (AtReturn /\ ~debug_saveall) =>
    \A S \in SUBSET Objs :
      PlainGarbage(S) =>
        /\ S \subseteq hist.final
        /\ S \cap mem.alive = {}
        /\ S \cap mem.cleared # {}
        /\ mem.cleared \subseteq hist.final
        /\ (S = Garbage0 => result = Cardinality(S))

\* C1 as stated: under the same conditions tp_clear was called on every
\* object of the set.
C1_AsStated ==
  (AtReturn /\ ~debug_saveall) =>
    \A S \in SUBSET Objs :
      PlainGarbage(S) =>
        /\ S \subseteq hist.final
        /\ S \subseteq mem.cleared
        /\ S \cap mem.alive = {}
        /\ (S = Garbage0 => result = Cardinality(S))

\* A two-object cycle was collected: both freed, collect() returned 2.
C1_Witness ==
  /\ AtReturn
  /\ ~debug_saveall
  /\ \E S \in SUBSET Objs :
       /\ PlainGarbage(S)
       /\ Cardinality(S) = 2
       /\ S = Garbage0
       /\ \E a \in S : hist.refs0[a] \cap (S \ {a}) # {}
       /\ S \cap mem.alive = {}
       /\ result = 2

\* The working set of the current collection, its objects with a reference
\* from outside the set, and what traverse edges reach from those.
Work0 == {o \in Objs : hist.gc_refs[o] >= 0}
KernelRoots == {o \in Work0 : hist.gc_refs[o] > 0}
KernelReach == ReachFrom(hist.refs0, KernelRoots, Work0)

\* C2: after deduce_unreachable(young, unreachable) an object of the working
\* set is in unreachable iff no traverse path leads to it from a working-set
\* object whose gc_refs was > 0 after subtract_refs; the objects so reachable
\* are in young, and this collection never clears or finalizes one of them.
C2_DeduceUnreachable ==
  ncollect > 0 =>
    /\ hist.unreach = Work0 \ KernelReach
    /\ hist.young = KernelReach
    /\ mem.cleared \cap hist.young = {}
    /\ mem.hist_fin \cap hist.young = {}
    /\ pc = "deduced" =>
         /\ ListSet(mem, unreachable) = hist.unreach
         /\ ListSet(mem, young) = hist.young
         /\ \A o \in Work0 :
              GC_BITS_IS_UNREACHABLE(mem, o) <=> o \in hist.unreach

\* deduce_unreachable has returned; an object whose gc_refs was 0 had been
\* moved to unreachable and was moved back behind the object that reaches it.
C2_Witness ==
  /\ pc = "deduced"
  /\ \E o \in hist.young : hist.gc_refs[o] = 0
  /\ ListSeq(mem, young) # SetToSeq(hist.young)

\* C3: tp_finalize runs at most once on an object, over all collections; an
\* object the collector finalized carries FINALIZED for as long as it lives.
C3_FinalizeOnce ==
  /\ \A o \in Objs : mem.nfinalize[o] <= 1
  /\ \A o \in mem.alive :
       mem.nfinalize[o] = 1 => GC_BITS_IS_FINALIZED(mem, o)

\* An object resurrected by its finalizer in the first collection was found
\* unreachable again by the second, and collected, with one finalizer call.
C3_Witness ==
  /\ AtReturn
  /\ ncollect = 2
  /\ \E o \in mem.ever_resurrected :
       /\ o \in hist.final
       /\ o \notin mem.alive
       /\ mem.nfinalize[o] = 1

\* The objects of the unreachable list that the resurrected objects reach.
Resurrected == ReachFrom(hist.refs0, mem.resurrected, hist.unreach_f)

\* C4: the objects a tp_finalize of this collection resurrected, and the
\* objects of the unreachable list reachable from them, are not in
\* final_unreachable, are not cleared, stay allocated and are not counted in
\* the return value, which is 0 when they are all of the unreachable objects.
C4_ResurrectionHonored ==
  (pc = "delete" \/ AtReturn) =>
    /\ Resurrected \cap hist.final = {}
    /\ Resurrected \cap mem.cleared = {}
    /\ Resurrected \subseteq mem.alive
    /\ n_collected = Cardinality(hist.final)
    /\ AtReturn =>
         /\ Resurrected \cap SeqToSet(hist.uncollectable) = {}
         /\ result = Cardinality(hist.final) + Len(hist.uncollectable)
         /\ (Resurrected = hist.unreach /\ Resurrected # {}) => result = 0

\* A finalizer resurrected one object of a two-object cycle: collect()
\* returned 0 and both are allocated.
C4_Witness ==
  /\ AtReturn
  /\ Cardinality(mem.resurrected) = 1
  /\ Cardinality(Resurrected) = 2
  /\ Resurrected = hist.unreach
  /\ Resurrected \subseteq mem.alive
  /\ result = 0

\* a and b form a cycle a <-> b that nothing else references, and the type
\* of a has tp_del.
TpDelCycle(a, b) ==
  /\ a # b
  /\ b \in hist.refs0[a]
  /\ a \in hist.refs0[b]
  /\ ClosedGarbage({a, b})
  /\ a \in tp_del

\* C5 (as amended): collect() on an externally unreachable cycle A <-> B in
\* which A's type has tp_del counts A and B as uncollectable and returns
\* n_collected + n_uncollectable: 2 when the cycle is all the garbage.
C5_TpDelCycleCounted ==
  AtReturn =>
    \A a, b \in Objs :
      TpDelCycle(a, b) =>
        /\ {a, b} \subseteq SeqToSet(hist.uncollectable)
        /\ n_uncollectable >= 2
        /\ result = n_collected + n_uncollectable
        /\ (Garbage0 = {a, b} => result = 2)

\* C5 as stated: collect() on such a cycle returns 0.
C5_AsStated ==
  AtReturn => \A a, b \in Objs : TpDelCycle(a, b) => result = 0

\* collect() has returned 2 on a heap that is one such cycle.
C5_Witness ==
  /\ AtReturn
  /\ \E a, b \in Objs : TpDelCycle(a, b) /\ Garbage0 = {a, b}
  /\ result = 2

\* What handle_legacy_finalizers of the current collection appended to garbage.
NewGarbage == SubSeq(mem.garbage, hist.glen + 1, Len(mem.garbage))

\* C6 (as amended): after collect() on an externally unreachable cycle
\* A <-> B in which only A's type has tp_del, with SAVEALL not set, A is on
\* the garbage list unless its PyList_Append failed, and B is not: B was kept
\* alive in finalizers but is not appended.
C6_OnlyTpDelOnGarbage ==
  (AtReturn /\ ~debug_saveall) =>
    \A a, b \in Objs :
      (TpDelCycle(a, b) /\ b \notin tp_del) =>
        /\ b \notin SeqToSet(NewGarbage)
        /\ b \in SeqToSet(hist.uncollectable)
        /\ b \in mem.alive
        /\ (~hist.oom => a \in SeqToSet(NewGarbage))

\* C6 as stated: both A and B are on the garbage list.
C6_AsStated ==
  (AtReturn /\ ~debug_saveall /\ ~hist.oom) =>
    \A a, b \in Objs :
      (TpDelCycle(a, b) /\ b \notin tp_del) =>
        {a, b} \subseteq SeqToSet(mem.garbage)

\* collect() has returned on such a cycle and garbage holds A alone.
C6_Witness ==
  /\ AtReturn
  /\ ~debug_saveall
  /\ \E a, b \in Objs :
       /\ TpDelCycle(a, b)
       /\ b \notin tp_del
       /\ NewGarbage = <<a>>

LegacyClosure ==
  ReachFrom(hist.refs0, hist.unreach \cap tp_del, hist.unreach)

\* C8: when handle_weakrefs starts, finalizers holds the unreachable objects
\* with tp_del and every unreachable object reachable from them, unreachable
\* holds the others, and no object of finalizers references an object of
\* unreachable; the collector calls tp_finalize and tp_clear on no object of
\* finalizers.
C8_LegacyClosure ==
  /\ pc = "weakrefs" =>
       /\ ListSet(mem, finalizers) = LegacyClosure
       /\ ListSet(mem, unreachable) = hist.unreach \ LegacyClosure
       /\ \A f \in ListSet(mem, finalizers) :
            mem.refs[f] \cap ListSet(mem, unreachable) = {}
  /\ (pc \in {"weakrefs", "finalize", "delete"} \/ AtReturn) =>
       /\ hist.finalizers = LegacyClosure
       /\ hist.finalizers \cap mem.cleared = {}
       /\ hist.finalizers \cap mem.hist_fin = {}

\* collect() has returned; an object without tp_del but with tp_finalize was
\* in finalizers because a tp_del object reaches it, and was never finalized.
C8_Witness ==
  /\ AtReturn
  /\ \E f \in hist.finalizers :
       /\ f \notin tp_del
       /\ f \in tp_finalize
       /\ mem.nfinalize[f] = 0
       /\ f \in mem.alive

\* C9 (as amended): tp_clear on final_unreachable may free an object of
\* finalizers; an object so freed has left the list, so every object still in
\* finalizers during delete_garbage, and every object counted in
\* n_uncollectable, is allocated, also after handle_legacy_finalizers.
C9_UncollectableAlive ==
  /\ pc = "delete" => ListSet(mem, finalizers) \subseteq mem.alive
  /\ AtReturn =>
       /\ SeqToSet(hist.uncollectable) \subseteq mem.alive
       /\ SeqToSet(hist.uncollectable) \subseteq hist.finalizers
       /\ hist.finalizers \cap mem.alive \subseteq SeqToSet(hist.uncollectable)

\* C9 as stated: no object moved to finalizers is freed during the collection.
C9_AsStated ==
  (pc \in {"weakrefs", "finalize", "delete"} \/ AtReturn) =>
    hist.finalizers \subseteq mem.alive

\* collect() has returned after delete_garbage cleared an object and with an
\* object counted as uncollectable.
C9_Witness ==
  /\ AtReturn
  /\ mem.cleared # {}
  /\ hist.uncollectable # <<>>
  /\ SeqToSet(hist.uncollectable) \subseteq mem.alive

\* The appends handle_legacy_finalizers had to make in the current collection.
DueAppends ==
  SelectSeq(hist.uncollectable, LAMBDA o : debug_saveall \/ o \in tp_del)

\* C10 (as amended): when no PyList_Append fails, handle_legacy_finalizers
\* appends to garbage, in list order, every object of finalizers under
\* DEBUG_SAVEALL and otherwise exactly those whose type has tp_del; when an
\* append fails, the objects before it are appended and no other; in every
\* case finalizers is left empty and every former member detached.
C10_LegacyPublication ==
  AtReturn =>
    /\ ~hist.oom => NewGarbage = DueAppends
    /\ Len(NewGarbage) <= Len(DueAppends)
    /\ NewGarbage = SubSeq(DueAppends, 1, Len(NewGarbage))
    /\ gc_list_is_empty(mem, finalizers)
    /\ GC_PREV(mem, finalizers) = finalizers
    /\ \A o \in SeqToSet(hist.uncollectable) :
         /\ mem.next[o] = NULL
         /\ GC_BITS_IS_TRACKED(mem, o)

\* C10 as stated: the appends are made in every case.
C10_AsStated ==
  AtReturn =>
    /\ NewGarbage = DueAppends
    /\ gc_list_is_empty(mem, finalizers)
    /\ \A o \in SeqToSet(hist.uncollectable) : mem.next[o] = NULL

\* collect() has returned under DEBUG_SAVEALL with two objects in finalizers,
\* one of them without tp_del, and both were appended.
C10_Witness ==
  /\ AtReturn
  /\ debug_saveall
  /\ Len(hist.uncollectable) = 2
  /\ \E o \in SeqToSet(hist.uncollectable) : o \notin tp_del
  /\ NewGarbage = hist.uncollectable

\* The objects on the garbage list that are allocated and tracked.
TrackedGarbage ==
  {o \in SeqToSet(mem.garbage) : o \in mem.alive /\ GC_BITS_IS_TRACKED(mem, o)}

\* C11 (as amended): between collections, with DEBUG_SAVEALL not set, every
\* object that is on the garbage list and tracked was moved to finalizers by
\* a collection; with DEBUG_SAVEALL set the garbage list also holds, still
\* tracked, the objects of final_unreachable that delete_garbage saved there.
C11_GarbageTracked ==
  (pc = "idle" /\ ncollect > 0) =>
    /\ ~debug_saveall => TrackedGarbage \subseteq hist.ever_legacy
    /\ debug_saveall =>
         TrackedGarbage \subseteq hist.ever_legacy \cup hist.ever_final

\* C11 as stated: for every debug-flag setting, an object on the garbage list
\* and tracked was moved to finalizers.
C11_AsStated ==
  (pc = "idle" /\ ncollect > 0) => TrackedGarbage \subseteq hist.ever_legacy

\* collect() has returned with the default flags after clearing an object and
\* publishing a tp_del object, which is tracked.
C11_Witness ==
  /\ AtReturn
  /\ ~debug_saveall
  /\ mem.cleared # {}
  /\ TrackedGarbage # {}
  /\ TrackedGarbage \subseteq tp_del

\* A weak reference w with a callback whose referent a is in the unreachable
\* list when handle_weakrefs starts.
WeakToTrash(w, a) ==
  /\ pc \notin {"idle", "deduced"} \/ AtReturn
  /\ w \in Weakrefs /\ hist.wr_callback0[w]
  /\ a = hist.wr_object0[w] /\ a \in hist.unreach_f

\* collect() has ended without returning.
Ended == pc \in {"aborted", "crashed"}

\* C12 as stated: when a weak reference W with a callback refers to A, A is
\* in the unreachable list and W is not, the collection runs to its end, and
\* then W is cleared, its callback has been called exactly once, W is linked
\* in no list (or freed) and A is freed.
C12_AsStated ==
  \A w \in Weakrefs, a \in Objs :
    (WeakToTrash(w, a) /\ w \notin hist.unreach_f) =>
      /\ ~Ended
      /\ AtReturn =>
           /\ w \in mem.alive => mem.wr_object[w] = NULL /\ mem.next[w] = NULL
           /\ mem.wr_called[w] = 1
           /\ a \notin mem.alive

\* C13 (as amended): when a weak reference W and its referent A are both in
\* the unreachable list, the callback of W is never called; and when
\* DEBUG_SAVEALL is not set and W and A are still unreachable after the
\* tp_finalize calls, both are freed when collect() returns.
C13_TrashWeakref ==
  \A w \in Weakrefs, a \in Objs :
    (WeakToTrash(w, a) /\ w \in hist.unreach_f) =>
      /\ mem.wr_called[w] = 0
      /\ (AtReturn /\ ~debug_saveall /\ {w, a} \subseteq hist.final) =>
           w \notin mem.alive /\ a \notin mem.alive

\* C13 as stated: the callback is never called and both are freed.
C13_AsStated ==
  \A w \in Weakrefs, a \in Objs :
    (WeakToTrash(w, a) /\ w \in hist.unreach_f) =>
      /\ mem.wr_called[w] = 0
      /\ AtReturn => w \notin mem.alive /\ a \notin mem.alive

C13_Witness ==
  \E w \in Weakrefs, a \in Objs :
    /\ WeakToTrash(w, a) /\ w \in hist.unreach_f
    /\ AtReturn /\ ~debug_saveall
    /\ w \notin mem.alive /\ a \notin mem.alive
    /\ mem.cleared # {}

\* C14: whenever a weak-reference callback, a tp_finalize or a tp_clear has
\* started to run, no object of the unreachable list could be obtained from
\* a weak reference: the callbacks of handle_weakrefs run after its first
\* pass has cleared every weak reference to every object of the list; and a
\* weak reference never refers to an object whose storage is released.
C14_ClearedBeforeCallbacks ==
  /\ mem.exposed = {}
  /\ \A w \in Weakrefs \cap mem.alive :
       mem.wr_object[w] # NULL => mem.wr_object[w] \in mem.alive

C14_Witness ==
  /\ pc = "finalize"
  /\ \E w \in Weakrefs, a \in Objs :
       /\ WeakToTrash(w, a)
       /\ mem.wr_called[w] = 1
       /\ a \in mem.alive
       /\ mem.wr_object[w] = NULL

\* C15 (as amended): the weak-reference callbacks, the tp_finalize calls and
\* the tp_clear calls that the collector makes itself run in this order, no
\* call of an earlier kind after a call of a later kind; the calls made by
\* the deallocation of an object need not.
C15_PhaseOrder ==
  \A call \in mem.late : call[2] = "dealloc"

\* C15 as stated: no weak-reference callback and no tp_finalize runs after a
\* call of a later phase.
C15_AsStated == mem.late = {}

C15_Witness ==
  /\ AtReturn
  /\ mem.phase = 3
  /\ \E w \in Weakrefs : mem.wr_called[w] = 1
  /\ mem.hist_fin # {}
  /\ mem.late = {}

Frames == {<<t, i>> \in Threads \X (1..MaxDepth) : i <= Depth(drv, t)}
FrameOf(ti) == drv.stack[ti[1]][ti[2]]

\* C17: a call of collect() made while gcstate->collecting is set (from a
\* hook of the running collection), or by a thread whose cant_stop_wont_stop
\* is set, returns 0 without running a phase, without acquiring the mutex and
\* without stopping the world.
C17_ReentrantReturnsZero ==
  \A ti \in Frames :
    LET f == FrameOf(ti)
    IN (f.collecting0 \/ drv.cant_stop_wont_stop[ti[1]]) =>
         /\ f.pc = "return"
         /\ f.ret = 0 /\ ~f.ran /\ ~f.passed
         /\ f.nlock = 0 /\ f.nstop = 0 /\ f.ncb = 0 /\ f.nstats = 0

C17_Witness ==
  \E t \in Threads :
    /\ Depth(drv, t) = 2
    /\ drv.stack[t][1].pc = "phases"
    /\ Top(drv, t).collecting0
    /\ Top(drv, t).pc = "return"
    /\ ~drv.cant_stop_wont_stop[t]

\* C18: at most one thread is between the start and the stop callback of a
\* collection, and it is there holding the stop-the-world mutex, with the
\* world stopped by it and the collecting flag set; a thread is between
\* StopTheWorld and StartTheWorld only with the mutex held.
C18_OneCollector ==
  /\ \A t1, t2 \in Threads :
       (InPhases(drv, t1) /\ InPhases(drv, t2)) => t1 = t2
  /\ \A t \in Threads :
       InPhases(drv, t) =>
         drv.mutex = t /\ drv.stopped_by = t /\ drv.collecting
  /\ \A ti \in Frames :
       FrameOf(ti).pc \in StoppedPoints =>
         drv.mutex = ti[1] /\ drv.stopped_by = ti[1]

C18_Witness ==
  \E t1, t2 \in Threads :
    /\ t1 # t2
    /\ At(drv, t1, "phases")
    /\ At(drv, t2, "lock")

\* C19: a call of collect() that is about to return has released the mutex
\* as often as it acquired it and does not hold it, has restarted the world
\* exactly once if it stopped it, and, if it acquired the mutex, returns with
\* gcstate->collecting clear; so on the early exit of the HEAP reason too.
C19_Balanced ==
  \A ti \in Frames :
    LET f == FrameOf(ti)
        t == ti[1]
    IN f.pc = "return" =>
         /\ f.nlock = f.nunlock
         /\ f.nstop = f.nstart /\ f.nstop <= 1
         /\ f.nlock > 0 => drv.mutex # t /\ drv.stopped_by # t
         /\ (f.nlock > 0 /\ Running(drv, t)) => ~drv.collecting

C19_Witness ==
  /\ \E t \in Threads :
       At(drv, t, "return") /\ Top(drv, t).ran /\ Top(drv, t).nstart = 1
  /\ \E t \in Threads :
       /\ At(drv, t, "return")
       /\ Top(drv, t).nlock = 1 /\ ~Top(drv, t).ran

\* C20: with collecting and cant_stop_wont_stop clear, a MANUAL or SHUTDOWN
\* call runs the phases; a HEAP call runs them exactly when the live-object
\* count exceeds the threshold, and otherwise returns 0 having released the
\* mutex, without stopping the world, invoking a callback or changing the
\* statistics.
C20_Eligibility ==
  \A ti \in Frames :
    LET f == FrameOf(ti)
    IN (f.pc = "return" /\ f.passed) =>
         /\ f.reason \in {GC_REASON_MANUAL, GC_REASON_SHUTDOWN} => f.ran
         /\ f.reason = GC_REASON_HEAP => (f.ran <=> f.over)
         /\ ~f.ran =>
              /\ f.ret = 0
              /\ f.nlock = 1 /\ f.nunlock = 1
              /\ f.nstop = 0 /\ f.ncb = 0 /\ f.nstats = 0

C20_Witness ==
  /\ \E t \in Threads :
       /\ At(drv, t, "return")
       /\ Top(drv, t).passed
       /\ Top(drv, t).reason = GC_REASON_HEAP
       /\ ~Top(drv, t).over /\ ~Top(drv, t).ran
       /\ drv.gc_live = drv.gc_threshold
  /\ \E t \in Threads :
       /\ At(drv, t, "return")
       /\ Top(drv, t).reason = GC_REASON_HEAP
       /\ Top(drv, t).ran

\* Calls of a gc callback in one phase.
CallsOf(cb, phase) ==
  {i \in 1..Len(drv.calls) : drv.calls[i].cb = cb /\ drv.calls[i].phase = phase}

\* A call of a callback was made where and how collect() makes it.
CallInPlace(c) ==
  /\ c.collecting
  /\ c.phase = "start" =>
       c.collected = 0 /\ c.uncollectable = 0 /\ c.done = {}
  /\ c.phase = "stop" =>
       /\ c.collected = drv.found[1] /\ c.uncollectable = drv.found[2]
       /\ "phases" \in c.done

\* C21: after every completed collection gc_threshold is
\* max(7000, live + (live * gc_scale) / 100), with integer division and live
\* the value of gc_live read when the threshold is updated.
C21_Threshold ==
  drv.completed =>
    LET live == drv.live_at_update
        t == live + (live * drv.gc_scale) \div 100
    IN /\ live >= 0
       /\ drv.gc_threshold = IF t < GC_THRESHOLD_FLOOR THEN GC_THRESHOLD_FLOOR ELSE t

C21_Witness ==
  /\ drv.completed
  /\ drv.gc_threshold > GC_THRESHOLD_FLOOR
  /\ drv.gc_scale = 50
  /\ drv.gc_live # drv.live_at_update
  /\ (drv.live_at_update * drv.gc_scale) % 100 # 0

C23_AsStated ==
  pc = "idle" =>
    \A o \in mem.alive : GC_BITS_IS_TRACKED(mem, o) <=> GC_NEXT(mem, o) # NULL

C25_AsStated ==
  [][\A o \in GCObjs :
       (GC_BITS_IS_FINALIZED(mem, o) /\ o \in mem'.alive)
         => GC_BITS_IS_FINALIZED(mem', o)]_vars

\* C25: once FINALIZED is set on an object, no operation of the collector
\* other than _PyGC_ResetHeap clears it while the object lives;
\* _PyGC_ResetHeap zeroes _gc_prev of every tracked object, FINALIZED
\* included.
C25_FinalizedKept ==
  [][/\ pc' # "reset" =>
          \A o \in GCObjs :
            (GC_BITS_IS_FINALIZED(mem, o) /\ o \in mem'.alive)
              => GC_BITS_IS_FINALIZED(mem', o)
     /\ pc' = "reset" =>
          \A o \in mem.alive :
            GC_BITS_IS_TRACKED(mem, o) => mem'.flags[o] = {}]_vars

\* A finalized object has survived two collections with its bit.
C25_Witness ==
  /\ AtReturn
  /\ ncollect = 2
  /\ \E o \in mem.alive :
       /\ GC_BITS_IS_FINALIZED(mem, o)
       /\ o \in mem.ever_resurrected

\* C26: when collect() returns no exception is set; an error raised by
\* tp_clear, by a weak-reference callback or by a gc callback is reported as
\* unraisable (or cleared silently at SHUTDOWN) and never reaches the caller,
\* and the remaining phases still run.
C26_NoErrorEscapes ==
  drv.completed =>
    /\ ~drv.exc
    /\ drv.nhooks = Len(drv.hooks)
    /\ "phases" \in drv.done
    /\ drv.raised = drv.unraisable + drv.cleared + drv.lost
    /\ drv.cleared > 0 => drv.reason = GC_REASON_SHUTDOWN
    /\ ~drv.exc0 => drv.lost = 0

C26_Witness ==
  /\ drv.completed
  /\ ~drv.exc0
  /\ drv.raised = 4
  /\ {"callback", "tp_clear"} \subseteq drv.done
  /\ Len(drv.calls) = 2

\* An exception pending at the call is cleared silently at SHUTDOWN.
C26_WitnessShutdown ==
  /\ drv.completed
  /\ drv.cleared = 1

\* The collection has taken back the counts it added.
Released == drv.pc \in {"stop_callback", "clear_collecting", "return", "done"}

\* The blocks visit_heap is to visit: the tracked blocks of the heaps of the
\* thread states and of the pages in use, with the GC tag, of the abandoned
\* segments.
WalkTargets ==
  {b \in Blocks :
     /\ drv.tracked[b]
     /\ \/ drv.loc[b] \in {1, 2} /\ \E t \in Threads : drv.tstate[t] = 1
        \/ drv.loc[b] = 3 /\ \E t \in Threads : drv.tstate[t] = 2
        \/ drv.loc[b] \in {4, 7}}

\* C27: visit_heap calls the visitor exactly once for each tracked object of
\* the GC heaps of all threads and of the abandoned segments; a non-zero
\* return of the visitor stops the walk at once and is the value visit_heap
\* returns; on every exit the visited flag of every heap is false and the
\* lock on the interpreter list is released.
C27_VisitHeap ==
  drv.pc = "done" =>
    /\ drv.ret = 0 =>
         \A b \in Blocks : drv.visits[b] = IF b \in WalkTargets THEN 1 ELSE 0
    /\ \A b \in Blocks : drv.visits[b] <= 1 /\ (drv.visits[b] = 1 => b \in WalkTargets)
    /\ drv.err_at \in WalkTargets =>
         /\ drv.ret = 10 + drv.err_at
         /\ drv.order # <<>> /\ drv.order[Len(drv.order)] = drv.err_at
    /\ drv.err_at \notin WalkTargets => drv.ret = 0
    /\ \A h \in WalkHeaps : ~drv.heap[h].visited
    /\ ~drv.locked
    /\ drv.nlock = (IF drv.mutex_set THEN 1 ELSE 0) /\ drv.nunlock = drv.nlock

\* Two thread states share a heap, and the walk visits its two blocks once.
C27_Witness ==
  /\ drv.pc = "done"
  /\ drv.ret = 0
  /\ drv.mutex_set
  /\ \A t \in Threads : drv.tstate[t] = 1
  /\ Len(drv.order) = NumBlocks

\* The visitor stops the walk before the last target.
C27_WitnessStop ==
  /\ drv.pc = "done"
  /\ drv.ret # 0
  /\ \E b \in WalkTargets : drv.visits[b] = 0
  /\ \E b \in Blocks : drv.loc[b] = 7

C29_UseDeferredRc ==
  /\ drv.pc \in {"phases", "remove_deferred"} =>
       drv.use_deferred_rc = 0 /\ drv.prev_use_deferred_rc = drv.udrc0
  /\ drv.pc \in {"call", "start_callback", "add_deferred"} =>
       drv.use_deferred_rc = drv.udrc0
  /\ Released => drv.use_deferred_rc = drv.udrc0
  /\ drv.release_flags \subseteq {drv.udrc0}

C29_Witness ==
  /\ drv.completed
  /\ drv.udrc0 = 2
  /\ drv.release_flags = {2}
  /\ Cardinality(drv.released) >= 2
  /\ drv.nhooks > 0

\* C30: the counts added at the start are removed only after
\* gcstate->collecting has been set back to zero.
C30_AsStated == \A c \in drv.collecting_at_release : ~c

\* ------------------------------------------ properties of the kernel steps
\* The tracked objects of the heap, and the edges into o from members of list.
TrackedObjs(m) == {o \in m.alive : GC_BITS_IS_TRACKED(m, o)}

EdgesFrom(m, S, o) == Cardinality({p \in S : o \in m.refs[p]})

NoDuplicates(s) == \A i, j \in 1..Len(s) : s[i] = s[j] => i = j

\* C31: after update_refs(young) and subtract_refs(young) every tracked object
\* is in young exactly once, its gc_refs is its reference count minus the
\* number of traverse edges into it from objects of young, which is the number
\* of references from outside young, and no gc_refs went below zero (gc_decref
\* was never applied to a zero gc_refs, self-references included).
C31_SubtractRefs ==
  drv.pc = "deduce" =>
    LET m == drv.m
        members == ListSeq(m, young)
    IN /\ NoDuplicates(members)
       /\ SeqToSet(members) = TrackedObjs(m)
       /\ \A o \in TrackedObjs(m) :
            /\ gc_get_refs(m, o) =
                 Py_GC_REFCNT(m, o) - EdgesFrom(m, SeqToSet(members), o)
            /\ gc_get_refs(m, o) =
                 m.ext[o] + EdgesFrom(m, m.alive \ SeqToSet(members), o)
            /\ gc_get_refs(m, o) >= 0

\* A heap with a self-referencing object left at gc_refs 0 and an object that
\* keeps a count after an edge from young was subtracted.
C31_Witness ==
  /\ drv.pc = "deduce"
  /\ \E o \in TrackedObjs(drv.m) :
       o \in drv.m.refs[o] /\ gc_get_refs(drv.m, o) = 0
  /\ \E o \in TrackedObjs(drv.m) :
       /\ gc_get_refs(drv.m, o) > 0
       /\ EdgesFrom(drv.m, ListSet(drv.m, young), o) > 0

\* The members of young to the left of the cursor of move_unreachable.
LeftOfCursor(d) == ListFrom(d.m, GC_NEXT(d.m, young), d.gc)

\* An iteration that finds gc_refs == 0 at the cursor.
CursorAtZero(d) ==
  d.pc = "move" /\ d.gc # young /\ gc_get_refs(d.m, d.gc) = 0

\* C32: at every iteration of move_unreachable's loop every object to the left
\* of the cursor in young has gc_refs > 0 and was traversed, every member of
\* unreachable has UNREACHABLE set, and an object found at the cursor with
\* gc_refs == 0 becomes the tail of unreachable while the proven-reachable
\* predecessor stays where it is.
C32_LoopInvariant ==
  /\ [](drv.pc = "move" =>
          /\ \A o \in SeqToSet(LeftOfCursor(drv)) :
               gc_get_refs(drv.m, o) > 0 /\ drv.ntraverse[o] = 1
          /\ \A o \in ListSet(drv.m, unreachable) :
               GC_BITS_IS_UNREACHABLE(drv.m, o))
  /\ [][CursorAtZero(drv) =>
          /\ drv'.prev = drv.prev
          /\ GC_PREV(drv'.m, unreachable) = drv.gc
          /\ GC_NEXT(drv'.m, drv.gc) = unreachable
          /\ ListSeq(drv'.m, unreachable) =
               Append(ListSeq(drv.m, unreachable), drv.gc)
          /\ drv.gc \notin ListSet(drv'.m, young)]_vars

\* An iteration with a scanned object to the left, an object already in
\* unreachable, and the cursor on an object with gc_refs == 0.
C32_Witness ==
  /\ CursorAtZero(drv)
  /\ LeftOfCursor(drv) # <<>>
  /\ ListSeq(drv.m, unreachable) # <<>>

\* Each object is traversed, moved to unreachable and moved back at most once.
AtMostOnce(d) ==
  \A o \in GCObjs : d.ntraverse[o] <= 1 /\ d.nin[o] <= 1 /\ d.nback[o] <= 1

\* C33 as stated: move_unreachable terminates, traverses each object at most
\* once, moves an object into unreachable at most once and back at most once,
\* and an object that was moved back moves none of its children when it is
\* scanned.
C33_AsStated ==
  /\ <>(drv.pc = "done")
  /\ [](AtMostOnce(drv) /\ drv.back_moved = {})

\* C33, amended: move_unreachable terminates on every finite object graph,
\* traverses each object at most once, moves an object into unreachable at
\* most once and back to young at most once; an object that was moved back
\* is in young when the loop ends and was traversed exactly once, at its scan.
C33_Terminates ==
  /\ <>(drv.pc = "done")
  /\ [](/\ AtMostOnce(drv)
        /\ drv.pc = "done" =>
             \A o \in GCObjs :
               drv.nback[o] > 0 =>
                 /\ o \in ListSet(drv.m, young)
                 /\ drv.nin[o] = 1
                 /\ drv.ntraverse[o] = 1)

\* The loop has ended after an object that was moved back moved one of its
\* children back when it was scanned.
C33_Witness ==
  /\ drv.pc = "done"
  /\ drv.back_moved # {}

\* ----------------------------------- properties of the lists of collect()
\* validate_list's walk: every member has a successor and its prev pointer is
\* its predecessor in the walk, and the head's prev is the last member.
RECURSIVE ValidFrom(_, _, _, _, _)
ValidFrom(m, prev, gc, head, fuel) ==
  IF gc = head THEN GC_PREV(m, head) = prev
  ELSE /\ fuel > 0
       /\ gc \in GCObjs
       /\ GC_NEXT(m, gc) # NULL
       /\ GC_PREV(m, gc) = prev
       /\ ValidFrom(m, gc, GC_NEXT(m, gc), head, fuel - 1)

ValidList(m, head) ==
  ValidFrom(m, head, GC_NEXT(m, head), head, Cardinality(Nodes))

\* The allocated objects with UNREACHABLE set.
FlaggedUnreachable(m) == {o \in m.alive : GC_BITS_IS_UNREACHABLE(m, o)}

\* From the return of deduce_unreachable to the call of
\* handle_resurrected_objects; finalizers exists from its gc_list_init on.
UnreachablePhase == pc \in {"deduced", "weakrefs", "callbacks", "finalize"}

\* The unreachable list, with the part finalize_garbage holds in seen while
\* it runs.
UnreachableMembers(m) ==
  ListSet(m, unreachable) \cup (IF pc = "finalize" THEN ListSet(m, seen) ELSE {})

\* C34: from the return of deduce_unreachable until handle_resurrected_objects
\* clears the flag, UNREACHABLE is set on exactly the members of the
\* unreachable list (cleared on what moved back to young or to finalizers,
\* still set on what move_legacy_finalizers left), and young, unreachable and
\* finalizers are well-formed doubly-linked lists in which every member's
\* prev is its list predecessor.
C34_AsStated ==
  UnreachablePhase =>
    /\ ValidList(mem, young)
    /\ ValidList(mem, unreachable)
    /\ pc = "finalize" => ValidList(mem, seen)
    /\ pc # "deduced" => ValidList(mem, finalizers)
    /\ FlaggedUnreachable(mem) = UnreachableMembers(mem)

\* A weak reference with a callback was left linked in finalizers while its
\* referent stayed in unreachable.
WeakrefInFinalizers ==
  \E w \in Weakrefs :
    /\ hist.wr_callback0[w]
    /\ w \in hist.finalizers
    /\ hist.wr_object0[w] \in hist.unreach_f

\* C34 in the runs in which handle_weakrefs queues no linked weak reference.
C34_UnlessQueuedLinked == C34_AsStated \/ WeakrefInFinalizers

\* C35: whenever handle_weakrefs appends a weak reference to wrcb_to_call the
\* weak reference is linked in no other list at that moment (_gc_next and the
\* prev pointer are null); a weak reference with a callback that sits in
\* finalizers and refers to an object of unreachable is never appended while
\* it is linked in finalizers.
C35_AsStated ==
  [][pc = "weakrefs" /\ pc' = "callbacks" =>
       \A w \in ListSet(mem', wrcb_to_call) :
         /\ GC_NEXT(mem, w) = NULL
         /\ GC_PREV(mem, w) = NULL
         /\ w \notin ListSet(mem, finalizers)]_vars

\* An iteration of delete_garbage under DEBUG_SAVEALL.
SaveallIteration ==
  /\ pc = "delete"
  /\ debug_saveall
  /\ ~gc_list_is_empty(mem, final_unreachable)
  /\ mem' # mem

\* C36: with DEBUG_SAVEALL set delete_garbage calls tp_clear on no object; it
\* appends each object of final_unreachable to garbage instead of freeing it,
\* an append that fails does not stop the loop (the object is unlinked and
\* the loop goes on to the next one), and the objects are counted in the
\* value collect returns.
C36_Saveall ==
  /\ [][SaveallIteration =>
          LET gc == GC_NEXT(mem, final_unreachable)
          IN /\ mem'.cleared = mem.cleared
             /\ mem'.alive = mem.alive
             /\ mem'.refs = mem.refs
             /\ mem'.garbage \in {mem.garbage, Append(mem.garbage, gc)}
             /\ ~hist'.oom => mem'.garbage = Append(mem.garbage, gc)
             /\ ListSeq(mem', final_unreachable) =
                  Tail(ListSeq(mem, final_unreachable))
             /\ GC_NEXT(mem', gc) = NULL]_vars
  /\ []((AtReturn /\ debug_saveall) =>
          /\ mem.cleared = {}
          /\ hist.final \subseteq mem.alive
          /\ gc_list_is_empty(mem, final_unreachable)
          /\ ~hist.oom => hist.final \subseteq SeqToSet(mem.garbage)
          /\ result >= Cardinality(hist.final) + Len(hist.uncollectable)
          /\ n_collected >= Cardinality(hist.final))

\* collect() has returned under DEBUG_SAVEALL after delete_garbage went over
\* two objects: the append of one failed and the other is on the garbage list.
C36_Witness ==
  /\ AtReturn
  /\ debug_saveall
  /\ result >= 2
  /\ \E o \in hist.final : o \notin SeqToSet(mem.garbage)
  /\ \E o \in hist.final : o \in SeqToSet(mem.garbage)

\* C37: delete_garbage terminates with final_unreachable empty: every
\* iteration removes the current head (the list gets shorter), the head is
\* either freed by its tp_clear or unlinked by gc_list_remove; tp_clear is
\* called at most once per object and never on an object that an earlier
\* tp_clear freed.
C37_DeleteGarbage ==
  /\ [][(pc = "delete" /\ ~gc_list_is_empty(mem, final_unreachable)) =>
          LET gc == GC_NEXT(mem, final_unreachable)
              before == ListSeq(mem, final_unreachable)
              after == ListSeq(mem', final_unreachable)
          IN /\ gc \in mem.alive
             /\ Len(after) < Len(before)
             /\ SeqToSet(after) \subseteq SeqToSet(Tail(before))
             /\ SeqToSet(after) \subseteq mem'.alive
             /\ gc \notin mem'.alive \/ GC_NEXT(mem', gc) = NULL
             /\ ~debug_saveall =>
                  /\ gc \notin mem.cleared
                  /\ mem'.cleared = mem.cleared \cup {gc}]_vars
  /\ [](AtReturn => /\ gc_list_is_empty(mem, final_unreachable)
                    /\ mem.cleared \subseteq hist.final)

\* collect() has returned after delete_garbage freed two objects with one
\* tp_clear: the other object was freed as a side effect and never cleared.
C37_Witness ==
  /\ AtReturn
  /\ ~debug_saveall
  /\ Cardinality(hist.final) = 2
  /\ Cardinality(mem.cleared) = 1
  /\ hist.final \cap mem.alive = {}

\* ------------------------------------------- properties of the generators
\* C38: _PyGen2_Send raises the "can't send non-None value to a just-started"
\* TypeError exactly when the status of the generator is GEN_STARTED and the
\* argument is not None; the check leaves gen->status as it was, and a
\* generator suspended at a yield that is sent a value is resumed.
C38_AsStated ==
  drv.op = "send" =>
    /\ drv.exc = "TypeError" <=>
         (drv.status0 = drv.enum.GEN_STARTED /\ drv.arg # "None")
    /\ drv.exc = "TypeError" => drv.status = drv.status0
    /\ (drv.status0 = drv.enum.GEN_YIELD /\ drv.arg # "None") => drv.resumed

AwaitableOps == {"asend_send", "asend_throw", "athrow_send", "athrow_throw"}

\* The awaitable a call was made on was closed at the call.
ClosedAtCall(d) ==
  \/ d.op \in {"asend_send", "asend_throw"} /\ d.ags0 = AWAITABLE_STATE_CLOSED
  \/ d.op \in {"athrow_send", "athrow_throw"} /\ d.agt0 = AWAITABLE_STATE_CLOSED

\* C39: the state of an asend or athrow awaitable only advances from INIT
\* over ITER to CLOSED and never goes back; a send, throw or iteration on a
\* closed awaitable raises RuntimeError, does not resume the generator and
\* leaves running_async (and the generator's status) as it was.
C39_AwaitableState ==
  /\ [][/\ drv.ags_state <= drv'.ags_state
        /\ drv.agt_state <= drv'.agt_state]_vars
  /\ [](/\ {drv.ags_state, drv.agt_state} \subseteq
             {AWAITABLE_STATE_INIT, AWAITABLE_STATE_ITER, AWAITABLE_STATE_CLOSED}
        /\ ClosedAtCall(drv) =>
             /\ drv.res = "NULL"
             /\ drv.exc = "RuntimeError"
             /\ ~drv.resumed
             /\ drv.running_async = drv.running0
             /\ drv.status = drv.status0
             /\ drv.ags_state = drv.ags0
             /\ drv.agt_state = drv.agt0)

\* A send on a closed asend awaitable of a generator whose running_async flag
\* is set.
C39_Witness ==
  /\ drv.op = "asend_send"
  /\ drv.ags0 = AWAITABLE_STATE_CLOSED
  /\ drv.running0 = 1
  /\ drv.status0 = drv.enum.GEN_YIELD

\* C40: when async_gen_asend_send or async_gen_athrow_send returns NULL after
\* it set running_async to 1 (any error or completion path, an invalid athrow
\* argument tuple included), running_async is 0 on return.
C40_AsStated ==
  (drv.op \in {"asend_send", "athrow_send"} /\ drv.set_running /\ drv.res = "NULL")
    => drv.running_async = 0

\* C40 on every path but the invalid argument tuple of athrow.
C40_UnlessBadTuple ==
  C40_AsStated \/ (drv.op = "athrow_send" /\ drv.agt_args = "bad")

====
